---------------------------- MODULE Spec2Model ----------------------------
(***************************************************************************)
(* Model of the claude-in-mobile MCP server:                                *)
(*   - DeviceManager (src/src/device-manager.ts): active device state and  *)
(*     routing of the unified commands to the Android / iOS clients;       *)
(*   - handleTool (src/src/index.ts): the tap handler and its element       *)
(*     lookup over the parsed UI hierarchy;                                 *)
(*   - compressScreenshot (src/src/utils/image.ts): resize and the          *)
(*     quality-reduction loop.                                              *)
(* Three specifications share the variables: Spec (DeviceManager),          *)
(* SpecTool (tool handlers) and SpecCompress (the screenshot pipeline).     *)
(***************************************************************************)
EXTENDS Integers, Sequences, FiniteSets, TLC

VARIABLES
    adbUp,          \* adb answers `adb devices` (FALSE: AdbClient.getDevices throws)
    adbState,       \* per Android serial: "absent" or the state adb reports
    simUp,          \* simctl answers (FALSE: IosClient.getDevices throws)
    simState,       \* per simulator udid: "absent" or the lower-cased simctl state
    activeDevice,   \* DeviceManager.activeDevice
    androidClient,  \* DeviceManager.androidClient: [deviceId]
    iosClient,      \* DeviceManager.iosClient: [deviceId]
    last,           \* outcome of the last DeviceManager call (observation only)
    cachedElements, \* index.ts: the module-level cache of parsed UI elements
    cachedFrom,     \* the deviceId of the client cachedElements was fetched from
                    \* (observation only)
    reply,          \* outcome of the last tool call (observation only)
    job,            \* the running compressScreenshot call: its locals and position
    result,         \* outcome of the last DeviceManager.screenshot call
    clock,          \* desktop companion: System.currentTimeMillis()
    consent,        \* desktop host: accessibility access is granted / AT-SPI2 runs
    axs,            \* the AccessibilityService object: its OS variant and fields
    axCall,         \* the running or just settled call on the service
    axLog,          \* when the cached hierarchy was created (observation only)
    gradle,         \* the child process of GradleLauncher and the timer of stop()
    server          \* index.ts: the tool calls received and their handlers

worldVars == <<adbUp, adbState, simUp, simState>>
dmVars == <<adbUp, adbState, simUp, simState, activeDevice, androidClient, iosClient, last>>
toolVars == <<cachedElements, cachedFrom, reply>>
shotVars == <<job, result>>
accVars == <<clock, consent, axs, axCall, axLog>>
procVars == <<gradle, server>>
nonDmVars == <<toolVars, shotVars, accVars, procVars>>
vars == <<dmVars, toolVars, shotVars, accVars, procVars>>

---------------------------------------------------------------------------
(* Bounds of the device world *)

MaxAndroid == 2
MaxIos == 1

---------------------------------------------------------------------------
(* JavaScript values *)

Undefined == "undefined"

Platforms == {"android", "ios"}
PlatformHints == Platforms \cup {Undefined}

AndroidIds == {<<"serial", i>> : i \in 1..MaxAndroid}
IosIds == {<<"udid", i>> : i \in 1..MaxIos}
NoId == <<"undefined", 0>>
\* an id that no backend ever reports
UnknownId == <<"nonexistent", 0>>
DeviceIds == AndroidIds \cup IosIds \cup {UnknownId}

AdbStates == {"device", "offline"}
SimStates == {"booted", "shutdown"}

NoDevice == [id |-> NoId, platform |-> Undefined, state |-> Undefined]

\* Array.prototype.find: the first element satisfying Test, or undefined
Find(seq, Test(_)) ==
    IF \E i \in 1..Len(seq) : Test(seq[i])
    THEN seq[CHOOSE i \in 1..Len(seq) :
                Test(seq[i]) /\ \A j \in 1..(i - 1) : ~Test(seq[j])]
    ELSE NoDevice

---------------------------------------------------------------------------
(* Backend clients *)

\* AdbClient.getDevices: the connected serials in adb's listing order
AdbGetDevices ==
    SelectSeq([i \in 1..MaxAndroid |-> [id |-> <<"serial", i>>, state |-> adbState[i]]],
              LAMBDA d : d.state # "absent")

\* IosClient.getDevices: the available simulators, state lower-cased
IosGetDevices ==
    SelectSeq([i \in 1..MaxIos |-> [id |-> <<"udid", i>>, state |-> simState[i]]],
              LAMBDA d : d.state # "absent")

\* IosClient.setDevice: this.deviceId = deviceId
IosClientSetDevice(client, deviceId) == [client EXCEPT !.deviceId = deviceId]

\* AdbClient.setDevice (declared only; its body is not among the sources):
\* scopes the later adb calls to deviceId
AdbClientSetDevice(client, deviceId) == [client EXCEPT !.deviceId = deviceId]

---------------------------------------------------------------------------
(* DeviceManager *)

ToDevices(list, platform) ==
    [i \in 1..Len(list) |-> [id |-> list[i].id, platform |-> platform, state |-> list[i].state]]

\* getAllDevices as it would be if the simulators were listed first
getAllDevices_IosFirst ==
    (IF simUp THEN ToDevices(IosGetDevices, "ios") ELSE <<>>)
    \o (IF adbUp THEN ToDevices(AdbGetDevices, "android") ELSE <<>>)

\* getAllDevices: Android first, then iOS; a backend that throws contributes nothing
getAllDevices ==
    (IF adbUp THEN ToDevices(AdbGetDevices, "android") ELSE <<>>)
    \o (IF simUp THEN ToDevices(IosGetDevices, "ios") ELSE <<>>)

This == [activeDevice |-> activeDevice, androidClient |-> androidClient, iosClient |-> iosClient]

\* setDevice as it would be if the fallback did not require a platform hint
setDevice_FallbackWithoutHint(this, deviceId, platform) ==
    LET devices == getAllDevices
        byId == Find(devices, LAMBDA d : d.id = deviceId)
        device == IF byId = NoDevice
                  THEN Find(devices, LAMBDA d : d.state = "device" \/ d.state = "booted")
                  ELSE byId
    IN  IF device = NoDevice
        THEN [error |-> "Device not found", device |-> NoDevice, this |-> this, enums |-> 1]
        ELSE [error |-> "none", device |-> device, enums |-> 1,
              this |-> IF device.platform = "android"
                       THEN [this EXCEPT !.activeDevice = device,
                                         !.androidClient = AdbClientSetDevice(@, device.id)]
                       ELSE [this EXCEPT !.activeDevice = device,
                                         !.iosClient = IosClientSetDevice(@, device.id)]]

\* setDevice as it would be if it informed both clients of the selection
setDevice_BothClients(this, deviceId, platform) ==
    LET devices == getAllDevices
        byId == Find(devices, LAMBDA d : d.id = deviceId)
        device == IF byId = NoDevice /\ platform # Undefined
                  THEN Find(devices, LAMBDA d :
                            (d.platform = platform /\ d.state = "device") \/ d.state = "booted")
                  ELSE byId
    IN  IF device = NoDevice
        THEN [error |-> "Device not found", device |-> NoDevice, this |-> this, enums |-> 1]
        ELSE [error |-> "none", device |-> device, enums |-> 1,
              this |-> [activeDevice |-> device,
                        androidClient |-> AdbClientSetDevice(this.androidClient, device.id),
                        iosClient |-> IosClientSetDevice(this.iosClient, device.id)]]

\* the fallback test of setDevice: && binds tighter than ||
SetDeviceFallbackTest(d, platform) ==
    (d.platform = platform /\ d.state = "device") \/ d.state = "booted"

\* setDevice as it would be if it assigned activeDevice before the check
\* that throws
setDevice_AssignsBeforeThrow(this, deviceId, platform) ==
    LET devices == getAllDevices
        byId == Find(devices, LAMBDA d : d.id = deviceId)
        device == IF byId = NoDevice /\ platform # Undefined
                  THEN Find(devices, LAMBDA d : SetDeviceFallbackTest(d, platform))
                  ELSE byId
    IN  IF device = NoDevice
        THEN [error |-> "Device not found", device |-> NoDevice, enums |-> 1,
              this |-> [this EXCEPT !.activeDevice = NoDevice]]
        ELSE [error |-> "none", device |-> device, enums |-> 1,
              this |-> IF device.platform = "android"
                       THEN [this EXCEPT !.activeDevice = device,
                                         !.androidClient = AdbClientSetDevice(@, device.id)]
                       ELSE [this EXCEPT !.activeDevice = device,
                                         !.iosClient = IosClientSetDevice(@, device.id)]]

setDevice(this, deviceId, platform) ==
    LET devices == getAllDevices
        byId == Find(devices, LAMBDA d : d.id = deviceId)
        device == IF byId = NoDevice /\ platform # Undefined
                  THEN Find(devices, LAMBDA d : SetDeviceFallbackTest(d, platform))
                  ELSE byId
    IN  IF device = NoDevice
        THEN [error |-> "Device not found", device |-> NoDevice, this |-> this, enums |-> 1]
        ELSE [error |-> "none", device |-> device, enums |-> 1,
              this |-> IF device.platform = "android"
                       THEN [this EXCEPT !.activeDevice = device,
                                         !.androidClient = AdbClientSetDevice(@, device.id)]
                       ELSE [this EXCEPT !.activeDevice = device,
                                         !.iosClient = IosClientSetDevice(@, device.id)]]

\* the auto-detect test as it would be if only adb's "device" state counted
AutoDetectTest_DeviceOnly(d) == d.state = "device"

\* the auto-detect test of getClient
AutoDetectTest(d) == d.state = "device" \/ d.state = "booted"

\* getClient as it would be if the active device took precedence over the hint
getClient_ActiveFirst(this, platform) ==
    LET targetPlatform == IF this.activeDevice # NoDevice THEN this.activeDevice.platform
                          ELSE platform
    IN  IF targetPlatform = Undefined
        THEN LET devices == getAllDevices
                 booted == Find(devices, AutoDetectTest)
             IN  IF booted # NoDevice
                 THEN LET r == setDevice(this, booted.id, Undefined)
                      IN  [error |-> r.error, this |-> r.this, enums |-> 1 + r.enums,
                           client |-> IF r.error = "none" THEN booted.platform ELSE Undefined]
                 ELSE [error |-> "No active device", client |-> Undefined,
                       this |-> this, enums |-> 1]
        ELSE [error |-> "none", client |-> targetPlatform, this |-> this, enums |-> 0]

\* getClient as it would be if it fell back to the Android client instead of throwing
getClient_DefaultAndroid(this, platform) ==
    LET targetPlatform == IF platform # Undefined THEN platform
                          ELSE this.activeDevice.platform
    IN  IF targetPlatform = Undefined
        THEN LET devices == getAllDevices
                 booted == Find(devices, AutoDetectTest)
             IN  IF booted # NoDevice
                 THEN LET r == setDevice(this, booted.id, Undefined)
                      IN  [error |-> r.error, this |-> r.this, enums |-> 1 + r.enums,
                           client |-> IF r.error = "none" THEN booted.platform ELSE Undefined]
                 ELSE [error |-> "none", client |-> "android", this |-> this, enums |-> 1]
        ELSE [error |-> "none", client |-> targetPlatform, this |-> this, enums |-> 0]

\* getClient as it would be if it dropped an active device that is no
\* longer enumerated
getClient_DropsMissingDevice(this, platform) ==
    LET devices == getAllDevices
        present == \E i \in 1..Len(devices) : devices[i].id = this.activeDevice.id
    IN  IF platform # Undefined
        THEN [error |-> "none", client |-> platform, this |-> this, enums |-> 0]
        ELSE IF this.activeDevice # NoDevice /\ present
        THEN [error |-> "none", client |-> this.activeDevice.platform, this |-> this,
              enums |-> 1]
        ELSE [error |-> "No active device", client |-> Undefined,
              this |-> [this EXCEPT !.activeDevice = NoDevice], enums |-> 1]

getClient(this, platform) ==
    LET targetPlatform == IF platform # Undefined THEN platform
                          ELSE this.activeDevice.platform
    IN  IF targetPlatform = Undefined
        THEN LET devices == getAllDevices
                 booted == Find(devices, AutoDetectTest)
             IN  IF booted # NoDevice
                 THEN LET r == setDevice(this, booted.id, Undefined)
                      IN  IF r.error # "none"
                          THEN [error |-> r.error, client |-> Undefined,
                                this |-> r.this, enums |-> 1 + r.enums]
                          ELSE [error |-> "none", client |-> booted.platform,
                                this |-> r.this, enums |-> 1 + r.enums]
                 ELSE [error |-> "No active device", client |-> Undefined,
                       this |-> this, enums |-> 1]
        ELSE [error |-> "none", client |-> targetPlatform, this |-> this, enums |-> 0]

---------------------------------------------------------------------------
(* Unified commands of DeviceManager: getClient, then the backend call *)

UnifiedCommands ==
    {"screenshot", "screenshotRaw", "tap", "longPress", "swipe", "swipeDirection",
     "inputText", "pressKey", "launchApp", "stopApp", "installApp",
     "getUiHierarchy", "shell", "getLogs", "clearLogs", "getSystemInfo"}

\* the backend methods a unified command invokes on the resolved client
BackendCalls(cmd, client) ==
    CASE cmd = "screenshot" -> <<"screenshotRaw">>
      [] cmd = "screenshotRaw" -> <<"screenshot">>
      [] cmd = "longPress" -> IF client = "android" THEN <<"longPress">> ELSE <<"tap">>
      [] cmd = "installApp" -> IF client = "android" THEN <<"installApk">> ELSE <<"installApp">>
      [] cmd = "getSystemInfo" -> IF client = "android"
                                  THEN <<"getBatteryInfo", "getMemoryInfo">> ELSE <<>>
      [] OTHER -> <<cmd>>

\* no tool call is being answered
NoReply == [tool |-> "none", platform |-> Undefined, kind |-> "none", isError |-> FALSE,
            text |-> "", resourceId |-> "", x |-> <<>>, y |-> <<>>, calls |-> <<>>,
            args |-> [x |-> <<>>, y |-> <<>>, index |-> <<>>]]

\* compressScreenshot is not running
NoJob == [pc |-> "none"]

\* no screenshot call has settled
NoResult == [status |-> "none"]

\* no call on the accessibility service is running or settled
NoAxCall == [pc |-> "none"]

\* GradleLauncher has launched no process
NoChild == [state |-> "none"]

\* no tool call has been received
NoCalls == [handlers |-> <<>>, received |-> 0, started |-> <<>>, replied |-> <<>>]

\* the AccessibilityService that AccessibilityService.create() builds on os:
\* cachedHierarchy = null, hierarchyCacheTimestamp = 0, cachedElements =
\* emptyList(), elementIndex = 0
NewService(os) ==
    [os |-> os, cachedHierarchy |-> <<>>, hierarchyCacheTimestamp |-> 0,
     cachedElements |-> <<>>, elementIndex |-> 0]

\* the companion has just started on a host
DesktopInit(os) ==
    /\ clock = 0
    /\ consent = FALSE
    /\ axs = NewService(os)
    /\ axCall = NoAxCall
    /\ axLog = [createdAt |-> 0, denied |-> 0]

Idle == [op |-> "idle", platform |-> Undefined, deviceId |-> NoId, error |-> "none",
         client |-> Undefined, device |-> NoDevice, enums |-> 0, calls |-> <<>>]

Assign(this) ==
    /\ activeDevice' = this.activeDevice
    /\ androidClient' = this.androidClient
    /\ iosClient' = this.iosClient

\* deviceManager.setDevice(deviceId, platform)
SetDevice(deviceId, platform) ==
    LET r == setDevice(This, deviceId, platform)
    IN  /\ last = Idle
        /\ Assign(r.this)
        /\ last' = [op |-> "setDevice", platform |-> platform, deviceId |-> deviceId,
                    error |-> r.error, client |-> Undefined, device |-> r.device,
                    enums |-> r.enums, calls |-> <<>>]
        /\ UNCHANGED <<worldVars, nonDmVars>>

\* deviceManager.<cmd>(..., platform)
Command(cmd, platform) ==
    LET r == getClient(This, platform)
    IN  /\ last = Idle
        /\ Assign(r.this)
        /\ last' = [op |-> cmd, platform |-> platform, deviceId |-> NoId,
                    error |-> r.error, client |-> r.client, device |-> NoDevice,
                    enums |-> r.enums,
                    calls |-> IF r.error = "none" THEN BackendCalls(cmd, r.client) ELSE <<>>]
        /\ UNCHANGED <<worldVars, nonDmVars>>

---------------------------------------------------------------------------
(* The device world: devices connect, disconnect and change state, and a    *)
(* backend tool may stop answering, between two calls.                      *)

\* the caller has read the outcome; the next call may be made
Return ==
    /\ last # Idle
    /\ last' = Idle
    /\ UNCHANGED <<adbUp, adbState, simUp, simState, activeDevice, androidClient, iosClient, nonDmVars>>

AdbChange(i, s) ==
    /\ last = Idle
    /\ adbUp
    /\ adbState[i] # s
    /\ adbState' = [adbState EXCEPT ![i] = s]
    /\ UNCHANGED <<adbUp, simUp, simState, activeDevice, androidClient, iosClient, last, nonDmVars>>

AdbToggle ==
    /\ last = Idle
    /\ adbUp' = ~adbUp
    /\ adbState' = [i \in 1..MaxAndroid |-> "absent"]
    /\ UNCHANGED <<simUp, simState, activeDevice, androidClient, iosClient, last, nonDmVars>>

SimChange(i, s) ==
    /\ last = Idle
    /\ simUp
    /\ simState[i] # s
    /\ simState' = [simState EXCEPT ![i] = s]
    /\ UNCHANGED <<adbUp, adbState, simUp, activeDevice, androidClient, iosClient, last, nonDmVars>>

SimToggle ==
    /\ last = Idle
    /\ simUp' = ~simUp
    /\ simState' = [i \in 1..MaxIos |-> "absent"]
    /\ UNCHANGED <<adbUp, adbState, activeDevice, androidClient, iosClient, last, nonDmVars>>

\* the MCP server has just started
MobileInit ==
    /\ adbUp = TRUE
    /\ adbState = [i \in 1..MaxAndroid |-> "absent"]
    /\ simUp = TRUE
    /\ simState = [i \in 1..MaxIos |-> "absent"]
    /\ activeDevice = NoDevice
    /\ androidClient = [deviceId |-> NoId]
    /\ iosClient = [deviceId |-> NoId]
    /\ last = Idle
    /\ cachedElements = <<>>
    /\ cachedFrom = NoId
    /\ reply = NoReply
    /\ job = NoJob
    /\ result = NoResult
    /\ gradle = NoChild
    /\ server = NoCalls

Init ==
    /\ MobileInit
    /\ DesktopInit("mac")

Next ==
    \/ \E d \in DeviceIds, p \in PlatformHints : SetDevice(d, p)
    \/ \E c \in UnifiedCommands, p \in PlatformHints : Command(c, p)
    \/ \E i \in 1..MaxAndroid, s \in AdbStates \cup {"absent"} : AdbChange(i, s)
    \/ AdbToggle
    \/ \E i \in 1..MaxIos, s \in SimStates \cup {"absent"} : SimChange(i, s)
    \/ SimToggle
    \/ Return

Spec == Init /\ [][Next]_vars


---------------------------------------------------------------------------
(* UI hierarchy: the dump of the Android client and its parsed elements.   *)
(* An absent optional number is the empty sequence, an absent or empty     *)
(* string argument is "".                                                  *)

MaxNodes == 2

\* the characters of the strings that occur
Chars(str) ==
    CASE str = "Foo" -> <<"F", "o", "o">>
      [] str = "Bar" -> <<"B", "a", "r">>
      [] str = "fo" -> <<"f", "o">>
      [] str = "btn" -> <<"b", "t", "n">>
      [] str = "img" -> <<"i", "m", "g">>
      [] OTHER -> <<>>

\* the nodes a dump is made of, before geometry
NodeKinds ==
    {[text |-> "Foo", contentDescription |-> "", resourceId |-> "btn", clickable |-> FALSE],
     [text |-> "Foo", contentDescription |-> "", resourceId |-> "btn", clickable |-> TRUE],
     [text |-> "Bar", contentDescription |-> "", resourceId |-> "img", clickable |-> TRUE]}

\* the node at place i of a dump occupies its own rectangle
BoundsAt(i) == [x |-> 100 * (i - 1), y |-> 40 * (i - 1), width |-> 50, height |-> 30]

\* what AdbClient.getUiHierarchy may return: up to MaxNodes nodes in document order
RawHierarchies ==
    UNION {{[i \in 1..n |-> [kind |-> k[i], bounds |-> BoundsAt(i)]] : k \in [1..n -> NodeKinds]}
           : n \in 0..MaxNodes}

\* parseUiHierarchy: nodes of positive area in traversal order, index from 0,
\* centre of the bounds
parseUiHierarchy(xml) ==
    LET valid == SelectSeq(xml, LAMBDA n : n.bounds.width > 0 /\ n.bounds.height > 0)
    IN  [i \in 1..Len(valid) |->
            [index |-> i - 1,
             text |-> valid[i].kind.text,
             contentDescription |-> valid[i].kind.contentDescription,
             resourceId |-> valid[i].kind.resourceId,
             clickable |-> valid[i].kind.clickable,
             centerX |-> valid[i].bounds.x + valid[i].bounds.width \div 2,
             centerY |-> valid[i].bounds.y + valid[i].bounds.height \div 2]]

\* String.prototype.toLowerCase
LowerChar(c) == CASE c = "F" -> "f" [] c = "B" -> "b" [] OTHER -> c
toLowerCase(chars) == [i \in 1..Len(chars) |-> LowerChar(chars[i])]

\* String.prototype.includes
includes(chars, q) ==
    \E i \in 0..(Len(chars) - Len(q)) : SubSeq(chars, i + 1, i + Len(q)) = q

\* findByText: case-insensitive substring of text or contentDescription
findByText(elements, query) ==
    SelectSeq(elements, LAMBDA e :
        \/ includes(toLowerCase(Chars(e.text)), toLowerCase(Chars(query)))
        \/ includes(toLowerCase(Chars(e.contentDescription)), toLowerCase(Chars(query))))

\* findByResourceId: substring of the resource id
findByResourceId(elements, query) ==
    SelectSeq(elements, LAMBDA e : includes(Chars(e.resourceId), Chars(query)))

---------------------------------------------------------------------------
(* handleTool (index.ts) *)

BackendCall(client, method, this, x, y) ==
    [client |-> client, method |-> method, x |-> x, y |-> y,
     deviceId |-> IF client = "android" THEN this.androidClient.deviceId
                  ELSE this.iosClient.deviceId]

\* const currentPlatform = platform ?? deviceManager.getCurrentPlatform()
CurrentPlatform(platform) == IF platform # Undefined THEN platform ELSE activeDevice.platform

\* the single target of a text / resourceId lookup as it would be without
\* the preference for clickable elements
TapTarget_FirstMatch(found) == found[1]

\* const clickable = found.filter(el => el.clickable); clickable[0] ?? found[0]
TapTarget(found) ==
    LET clickable == SelectSeq(found, LAMBDA el : el.clickable)
    IN  IF clickable # <<>> THEN clickable[1] ELSE found[1]

\* tap fetches the hierarchy for an index lookup only when the cache is empty
TapFetchesForIndex(platform, index) ==
    index # <<>> /\ CurrentPlatform(platform) = "android" /\ cachedElements = <<>>

\* tap always fetches the hierarchy for a text / resourceId lookup
TapFetchesForQuery(platform, text, resourceId) ==
    (text # "" \/ resourceId # "") /\ CurrentPlatform(platform) = "android"

\* case "set_device"
ToolSetDevice(deviceId, platform) ==
    LET r == setDevice(This, deviceId, platform)
    IN  /\ reply = NoReply
        /\ Assign(r.this)
        /\ reply' = [tool |-> "set_device", platform |-> platform,
                     kind |-> IF r.error = "none" THEN "Device set to" ELSE r.error,
                     text |-> "", resourceId |-> "",
                     isError |-> r.error # "none", x |-> <<>>, y |-> <<>>, calls |-> <<>>,
                     args |-> NoReply.args]
        /\ UNCHANGED <<worldVars, last, cachedElements, cachedFrom, shotVars, accVars,
                       procVars>>

\* case "tap"; xml is what the Android client returns when the handler
\* fetches the hierarchy (the screen does not change during one call)
ToolTap(platform, x, y, index, text, resourceId, xml) ==
    LET byIndex == index # <<>> /\ CurrentPlatform(platform) = "android"
        fetch1 == TapFetchesForIndex(platform, index)
        cached1 == IF fetch1 THEN parseUiHierarchy(xml) ELSE cachedElements
        calls1 == IF fetch1 THEN <<BackendCall("android", "getUiHierarchy", This, <<>>, <<>>)>>
                  ELSE <<>>
        atIndex == SelectSeq(cached1, LAMBDA e : e.index = index[1])
        byQuery == TapFetchesForQuery(platform, text, resourceId)
        cached2 == IF byQuery THEN parseUiHierarchy(xml) ELSE cached1
        calls2 == IF byQuery
                  THEN Append(calls1, BackendCall("android", "getUiHierarchy", This, <<>>, <<>>))
                  ELSE calls1
        found == IF text # "" THEN findByText(cached2, text)
                 ELSE findByResourceId(cached2, resourceId)
        x1 == IF byIndex THEN <<atIndex[1].centerX>> ELSE x
        y1 == IF byIndex THEN <<atIndex[1].centerY>> ELSE y
        x2 == IF byQuery THEN <<TapTarget(found).centerX>> ELSE x1
        y2 == IF byQuery THEN <<TapTarget(found).centerY>> ELSE y1
        r == getClient(This, platform)
        Answer(kind, isError, xx, yy, calls) ==
            reply' = [tool |-> "tap", platform |-> platform, kind |-> kind,
                      text |-> text, resourceId |-> resourceId,
                      isError |-> isError, x |-> xx, y |-> yy, calls |-> calls,
                      args |-> [x |-> x, y |-> y, index |-> index]]
    IN  /\ reply = NoReply
        /\ cachedFrom' = IF fetch1 \/ byQuery THEN androidClient.deviceId ELSE cachedFrom
        /\ IF byIndex /\ atIndex = <<>>
           THEN /\ Answer("Element with index not found", FALSE, <<>>, <<>>, calls1)
                /\ cachedElements' = cached1
                /\ UNCHANGED <<activeDevice, androidClient, iosClient>>
           ELSE IF byQuery /\ found = <<>>
           THEN /\ Answer("Element not found", FALSE, <<>>, <<>>, calls2)
                /\ cachedElements' = cached2
                /\ UNCHANGED <<activeDevice, androidClient, iosClient>>
           ELSE IF x2 = <<>> \/ y2 = <<>>
           THEN /\ Answer("Please provide", FALSE, <<>>, <<>>, calls2)
                /\ cachedElements' = cached2
                /\ UNCHANGED <<activeDevice, androidClient, iosClient>>
           ELSE /\ cachedElements' = cached2
                /\ Assign(r.this)
                /\ IF r.error # "none"
                   THEN Answer(r.error, TRUE, x2, y2, calls2)
                   ELSE Answer("Tapped at", FALSE, x2, y2,
                               Append(calls2, BackendCall(r.client, "tap", r.this, x2, y2)))
        /\ UNCHANGED <<worldVars, last, shotVars, accVars, procVars>>

\* x = found[0].centerX; y = found[0].centerY
LongPressTarget(found) == found[1]

\* long_press fetches the hierarchy for a text lookup on Android
LongPressFetches(platform, text) ==
    text # "" /\ CurrentPlatform(platform) = "android"

\* case "long_press"; xml is what the Android client returns when the
\* handler fetches the hierarchy
ToolLongPress(platform, x, y, text, xml) ==
    LET byText == LongPressFetches(platform, text)
        cached == IF byText THEN parseUiHierarchy(xml) ELSE cachedElements
        calls1 == IF byText
                  THEN <<BackendCall("android", "getUiHierarchy", This, <<>>, <<>>)>>
                  ELSE <<>>
        found == findByText(cached, text)
        x1 == IF byText THEN <<LongPressTarget(found).centerX>> ELSE x
        y1 == IF byText THEN <<LongPressTarget(found).centerY>> ELSE y
        r == getClient(This, platform)
        Answer(kind, isError, xx, yy, calls) ==
            reply' = [tool |-> "long_press", platform |-> platform, kind |-> kind,
                      text |-> text, resourceId |-> "",
                      isError |-> isError, x |-> xx, y |-> yy, calls |-> calls,
                      args |-> [x |-> x, y |-> y, index |-> <<>>]]
    IN  /\ reply = NoReply
        /\ cachedElements' = cached
        /\ cachedFrom' = IF byText THEN androidClient.deviceId ELSE cachedFrom
        /\ IF byText /\ found = <<>>
           THEN /\ Answer("Element not found", FALSE, <<>>, <<>>, calls1)
                /\ UNCHANGED <<activeDevice, androidClient, iosClient>>
           ELSE IF x1 = <<>> \/ y1 = <<>>
           THEN /\ Answer("Please provide", FALSE, <<>>, <<>>, calls1)
                /\ UNCHANGED <<activeDevice, androidClient, iosClient>>
           ELSE /\ Assign(r.this)
                /\ IF r.error # "none"
                   THEN Answer(r.error, TRUE, x1, y1, calls1)
                   ELSE Answer("Long pressed at", FALSE, x1, y1,
                               calls1 \o [i \in 1..Len(BackendCalls("longPress", r.client)) |->
                                   BackendCall(r.client,
                                               BackendCalls("longPress", r.client)[i],
                                               r.this, x1, y1)])
        /\ UNCHANGED <<worldVars, last, shotVars, accVars, procVars>>

\* the reply has been delivered; the next tool call may be handled
ToolReturn ==
    /\ reply # NoReply
    /\ reply' = NoReply
    /\ UNCHANGED <<dmVars, cachedElements, cachedFrom, shotVars, accVars, procVars>>

\* connected device sets of the tool-level runs: every connected device is usable
ToolWorlds ==
    {[android |-> a, ios |-> i] : a \in {{}, {1}, {1, 2}}, i \in {{}, {1}}}

\* devices connect and disconnect between two tool calls
ToolEnv(w) ==
    /\ reply = NoReply /\ job = NoJob /\ result = NoResult
    /\ adbState' = [i \in 1..MaxAndroid |-> IF i \in w.android THEN "device" ELSE "absent"]
    /\ simState' = [i \in 1..MaxIos |-> IF i \in w.ios THEN "booted" ELSE "absent"]
    /\ <<adbState', simState'>> # <<adbState, simState>>
    /\ UNCHANGED <<adbUp, simUp, activeDevice, androidClient, iosClient, last, toolVars,
                   shotVars, accVars, procVars>>

\* the arguments of the tap calls: coordinates, index, text, resourceId,
\* alone and in the combinations whose branches of the handler interact
TapArgs(x, y, index, text, resourceId) ==
    [x |-> x, y |-> y, index |-> index, text |-> text, resourceId |-> resourceId]

TapRequests ==
    {TapArgs(<<>>, <<>>, <<>>, "", ""),
     TapArgs(<<5>>, <<7>>, <<>>, "", ""),
     TapArgs(<<5>>, <<>>, <<>>, "", ""),
     TapArgs(<<>>, <<>>, <<0>>, "", ""),
     TapArgs(<<>>, <<>>, <<1>>, "", ""),
     TapArgs(<<5>>, <<7>>, <<1>>, "", ""),
     TapArgs(<<>>, <<>>, <<>>, "fo", ""),
     TapArgs(<<>>, <<>>, <<>>, "", "btn"),
     TapArgs(<<>>, <<>>, <<>>, "fo", "btn"),
     TapArgs(<<5>>, <<7>>, <<>>, "fo", ""),
     TapArgs(<<>>, <<>>, <<1>>, "fo", "")}

\* the arguments of the long_press calls
LongPressRequests ==
    {[x |-> <<>>, y |-> <<>>, text |-> ""],
     [x |-> <<5>>, y |-> <<7>>, text |-> ""],
     [x |-> <<>>, y |-> <<>>, text |-> "fo"],
     [x |-> <<5>>, y |-> <<7>>, text |-> "fo"]}

NextTool ==
    \/ /\ reply = NoReply
       /\ \E d \in DeviceIds, p \in PlatformHints : ToolSetDevice(d, p)
    \/ /\ reply = NoReply
       /\ \E p \in PlatformHints, a \in LongPressRequests :
             \E xml \in IF LongPressFetches(p, a.text) THEN RawHierarchies ELSE {<<>>} :
                ToolLongPress(p, a.x, a.y, a.text, xml)
    \/ /\ reply = NoReply
       /\ \E p \in PlatformHints, a \in TapRequests :
             \E xml \in IF \/ TapFetchesForIndex(p, a.index)
                           \/ TapFetchesForQuery(p, a.text, a.resourceId)
                        THEN RawHierarchies ELSE {<<>>} :
                ToolTap(p, a.x, a.y, a.index, a.text, a.resourceId, xml)
    \/ \E w \in ToolWorlds : ToolEnv(w)
    \/ ToolReturn

SpecTool == Init /\ [][NextTool]_vars

---------------------------------------------------------------------------
(* utils/image.ts: numbers as JavaScript sees them.  A number n is <<n>>,  *)
(* undefined is <<>>, NaN is <<0, 0>>.                                     *)

Num(n) == <<n>>
Undef == <<>>
NaN == <<0, 0>>
IsNum(v) == Len(v) = 1

\* a > b and a <= b: false as soon as an operand is undefined or NaN
Gt(a, b) == IsNum(a) /\ IsNum(b) /\ a[1] > b[1]
Le(a, b) == IsNum(a) /\ IsNum(b) /\ a[1] <= b[1]

\* Math.round(a / b) for integers a >= 0, b > 0 (halves round up)
RoundDiv(a, b) == (2 * a + b) \div (2 * b)

\* a / c >= d / b for positive integers, by the continued fractions of the
\* two sides (the products a * b and c * d do not fit the integers)
RECURSIVE FracGe(_, _, _, _)
FracGe(a, c, d, b) ==
    LET q1 == a \div c
        q2 == d \div b
        r1 == a % c
        r2 == d % b
    IN  IF q1 # q2 THEN q1 > q2
        ELSE IF r2 = 0 THEN TRUE
        ELSE IF r1 = 0 THEN FALSE
        ELSE FracGe(b, r2, c, r1)

\* k rounds to at most size * sqrt(maxSize / len) * 0.9, that is
\* k - 1/2 <= size * 0.9 * sqrt(maxSize / len)
ScaledAtLeast(k, size, maxSize, len) ==
    k = 0 \/ FracGe(81 * size * size, 25 * (2 * k - 1) * (2 * k - 1), len, maxSize)

\* the largest k in lo..hi with ScaledAtLeast, by bisection
RECURSIVE ScaledSearch(_, _, _, _, _)
ScaledSearch(lo, hi, size, maxSize, len) ==
    IF lo = hi THEN lo
    ELSE LET mid == (lo + hi + 1) \div 2
         IN  IF ScaledAtLeast(mid, size, maxSize, len)
             THEN ScaledSearch(mid, hi, size, maxSize, len)
             ELSE ScaledSearch(lo, mid - 1, size, maxSize, len)

\* Math.round(size * scaleFactor), scaleFactor = Math.sqrt(maxSize / len) * 0.9
\* with len > maxSize > 0
RoundScaled(size, maxSize, len) ==
    IF IsNum(size) /\ size[1] >= 0
    THEN Num(ScaledSearch(0, size[1], size[1], maxSize[1], len[1]))
    ELSE NaN

\* buffer.toString("base64"): four characters per three bytes, padded
ToBase64(bytes) == [chars |-> 4 * ((bytes + 2) \div 3), padding |-> (3 - (bytes % 3)) % 3]

\* the byte length a reader of the base64 text recovers
DecodedLength(data) == 3 * (data.chars \div 4) - data.padding

---------------------------------------------------------------------------
(* utils/image.ts: compressScreenshot, and DeviceManager.screenshot which  *)
(* calls it.  Every await is a step; the decoder and the encoder are the   *)
(* image library, whose outcomes are inputs of the steps.                  *)

\* as the build of unnamed/part_007 has them: no byte budget
DEFAULT_OPTIONS_NoByteCap ==
    [maxWidth |-> Num(1080), maxHeight |-> Num(1920), quality |-> Num(80)]

DEFAULT_OPTIONS ==
    [maxWidth |-> Num(800), maxHeight |-> Num(1400), quality |-> Num(70),
     maxSizeBytes |-> Num(1024 * 1024)]

\* const opts = { ...DEFAULT_OPTIONS, ...options }: a key that options
\* carries wins, also when its value is undefined
MergeOptions(options) ==
    [k \in DOMAIN DEFAULT_OPTIONS \cup DOMAIN options |->
        IF k \in DOMAIN options THEN options[k] ELSE DEFAULT_OPTIONS[k]]

\* opts.key: undefined when the object has no such key
Opt(opts, key) == IF key \in DOMAIN opts THEN opts[key] ELSE Undef

maxAttempts == 5

\* the loop stops one encode early
LoopContinues_OneShort(attempts) == attempts < maxAttempts - 1

\* while (attempts < maxAttempts)
LoopContinues(attempts) == attempts < maxAttempts

\* the step of 15 without the floor of 20
ReduceQuality_NoFloor(quality) ==
    IF IsNum(quality) THEN Num(quality[1] - 15) ELSE NaN

\* quality = Math.max(20, quality - 15)
ReduceQuality(quality) ==
    IF IsNum(quality)
    THEN Num(IF quality[1] - 15 > 20 THEN quality[1] - 15 ELSE 20)
    ELSE NaN

\* the test of line 72 always fails: no final shrink
StillTooLarge_Never(length, opts) == FALSE

\* if (jpegBuffer.length > opts.maxSizeBytes)
StillTooLarge(length, opts) == Gt(length, Opt(opts, "maxSizeBytes"))

\* lines 35-45: the dimensions that fit maxWidth x maxHeight
FitDimensions(width, height, opts) ==
    LET maxW == Opt(opts, "maxWidth")
        maxH == Opt(opts, "maxHeight")
    IN  IF Gt(Num(width), maxW) \/ Gt(Num(height), maxH)
        THEN IF IsNum(maxW) /\ IsNum(maxH)
             THEN IF maxW[1] * height <= maxH[1] * width
                  THEN [w |-> Num(RoundDiv(width * maxW[1], width)),
                        h |-> Num(RoundDiv(height * maxW[1], width))]
                  ELSE [w |-> Num(RoundDiv(width * maxH[1], height)),
                        h |-> Num(RoundDiv(height * maxH[1], height))]
             ELSE [w |-> NaN, h |-> NaN]
        ELSE [w |-> Num(width), h |-> Num(height)]

\* image.resize({w, h}) is given a size the library can produce
ResizeTargetValid(w, h) == IsNum(w) /\ IsNum(h) /\ w[1] >= 1 /\ h[1] >= 1

\* the outcome of the promise of DeviceManager.screenshot
Returned(data, mimeType, compress, png) ==
    [status |-> "returned", data |-> data, mimeType |-> mimeType, error |-> "none",
     compress |-> compress, png |-> png]
Threw(error, compress, png) ==
    [status |-> "threw", data |-> ToBase64(0), mimeType |-> "none", error |-> error,
     compress |-> compress, png |-> png]

\* the request settles: the promise resolves or rejects
Settle(pc, j, r) ==
    /\ job' = [j EXCEPT !.pc = pc]
    /\ result' = r

\* the image library throws inside compressScreenshot: nothing catches it,
\* here or in DeviceManager.screenshot, and the promise rejects
Fail(j, what) ==
    Settle("threw", [j EXCEPT !.thrown = what], Threw(what, TRUE, j.png))

\* return { data: jpegBuffer.toString("base64"), mimeType: "image/jpeg" }
ReturnJpeg(j) ==
    Settle("done", j, Returned(ToBase64(j.jpegBuffer[1]), "image/jpeg", TRUE, j.png))

\* DeviceManager.screenshot(platform, compress, options) up to the first
\* await; png is what client.screenshotRaw() returns
Screenshot(platform, compress, options, png) ==
    LET r == getClient(This, platform)
    IN  /\ job = NoJob /\ result = NoResult
        /\ last = Idle /\ reply = NoReply
        /\ Assign(r.this)
        /\ IF r.error # "none"
           THEN /\ job' = NoJob
                /\ result' = Threw(r.error, compress, png)
           ELSE IF ~compress
           THEN /\ job' = NoJob
                /\ result' = Returned(ToBase64(png.bytes), "image/png", compress, png)
           ELSE /\ job' = [pc |-> "read", png |-> png, options |-> options,
                           opts |-> MergeOptions(options),
                           width |-> Undef, height |-> Undef,
                           newWidth |-> Undef, newHeight |-> Undef,
                           quality |-> Undef, attempts |-> 0, jpegBuffer |-> Undef,
                           encodes |-> <<>>, resizes |-> <<>>, thrown |-> "none"]
                /\ result' = NoResult
        /\ UNCHANGED <<worldVars, last, toolVars, accVars, procVars>>

\* await Jimp.read(pngBuffer), then lines 31-56; resizeOk is whether the
\* library accepts a resize target it cannot produce
JimpRead(resizeOk) ==
    LET png == job.png
        fit == FitDimensions(png.width, png.height, job.opts)
        resizes == fit.w # Num(png.width) \/ fit.h # Num(png.height)
        j == [job EXCEPT !.width = IF resizes THEN fit.w ELSE Num(png.width),
                         !.height = IF resizes THEN fit.h ELSE Num(png.height),
                         !.newWidth = fit.w, !.newHeight = fit.h,
                         !.resizes = IF resizes
                                     THEN <<[w |-> fit.w, h |-> fit.h, step |-> "fit"]>>
                                     ELSE <<>>,
                         !.quality = Opt(job.opts, "quality"),
                         !.pc = "encode"]
    IN  /\ job.pc = "read"
        /\ (png.valid /\ resizes /\ ~ResizeTargetValid(fit.w, fit.h)) \/ resizeOk
        /\ IF ~png.valid
           THEN Fail(job, "decode")
           ELSE IF ~resizeOk
           THEN Fail(j, "resize")
           ELSE job' = j /\ result' = result
        /\ UNCHANGED <<dmVars, toolVars, accVars, procVars>>

\* await image.getBuffer("image/jpeg", { quality }) in the loop, then lines
\* 61-79 up to the next await; outcome is the length of the buffer the
\* encoder returns, or <<>> when it throws
Encode(outcome, resizeOk) ==
    LET maxSize == Opt(job.opts, "maxSizeBytes")
        enc == Append(job.encodes, [quality |-> job.quality, length |-> outcome,
                                    step |-> "loop"])
        within == Le(outcome, maxSize)
        quality == IF within THEN job.quality ELSE ReduceQuality(job.quality)
        attempts == IF within THEN job.attempts ELSE job.attempts + 1
        again == ~within /\ LoopContinues(attempts)
        shrink == ~again /\ StillTooLarge(outcome, job.opts)
        smallerWidth == RoundScaled(job.newWidth, maxSize, outcome)
        smallerHeight == RoundScaled(job.newHeight, maxSize, outcome)
        j == [job EXCEPT !.jpegBuffer = outcome, !.encodes = enc,
                         !.quality = quality, !.attempts = attempts]
        js == [j EXCEPT !.width = smallerWidth, !.height = smallerHeight,
                        !.resizes = Append(job.resizes,
                                           [w |-> smallerWidth, h |-> smallerHeight,
                                            step |-> "shrink"]),
                        !.pc = "final"]
    IN  /\ job.pc = "encode"
        /\ (outcome # <<>> /\ shrink /\ ~ResizeTargetValid(smallerWidth, smallerHeight))
           \/ resizeOk
        /\ IF outcome = <<>>
           THEN Fail(job, "encode")
           ELSE IF again
           THEN job' = j /\ result' = result
           ELSE IF ~shrink
           THEN ReturnJpeg(j)
           ELSE IF ~resizeOk
           THEN Fail(js, "resize")
           ELSE job' = js /\ result' = result
        /\ UNCHANGED <<dmVars, toolVars, accVars, procVars>>

\* jpegBuffer = await image.getBuffer("image/jpeg", { quality: 50 }), return
FinalEncode(outcome) ==
    LET j == [job EXCEPT !.jpegBuffer = outcome,
                         !.encodes = Append(job.encodes,
                                            [quality |-> Num(50), length |-> outcome,
                                             step |-> "final"])]
    IN  /\ job.pc = "final"
        /\ IF outcome = <<>>
           THEN Fail(job, "encode")
           ELSE ReturnJpeg(j)
        /\ UNCHANGED <<dmVars, toolVars, accVars, procVars>>

\* the caller has taken the outcome; the next screenshot may be requested
ShotReturn ==
    /\ result # NoResult
    /\ job' = NoJob
    /\ result' = NoResult
    /\ UNCHANGED <<dmVars, toolVars, accVars, procVars>>

\* what screenshotRaw returns: PNG files of several sizes, and bytes that
\* are no image
PngBuffers ==
    {[bytes |-> 5000000, width |-> 4000, height |-> 3000, valid |-> TRUE],
     [bytes |-> 50000, width |-> 400, height |-> 300, valid |-> TRUE],
     [bytes |-> 70, width |-> 1, height |-> 1, valid |-> TRUE],
     [bytes |-> 9000, width |-> 4000, height |-> 1, valid |-> TRUE],
     [bytes |-> 1234, width |-> 0, height |-> 0, valid |-> FALSE]}

\* the arguments of the screenshot tool: none, all three, maxWidth alone
ScreenshotArgs ==
    {<<>>,
     [maxWidth |-> Num(400), maxHeight |-> Num(200), quality |-> Num(90)],
     [maxWidth |-> Num(800)]}

\* case "screenshot": const options = { maxWidth: args.maxWidth, ... }; an
\* argument the request lacks becomes a key whose value is undefined
ToolOptions(args) ==
    [maxWidth |-> Opt(args, "maxWidth"), maxHeight |-> Opt(args, "maxHeight"),
     quality |-> Opt(args, "quality")]

\* the options of the callers: none; those index.ts builds; a byte budget
OptionSets ==
    {<<>>} \cup {ToolOptions(args) : args \in ScreenshotArgs} \cup
    {[maxSizeBytes |-> Num(4 * 1024 * 1024)],
     [quality |-> Num(10), maxSizeBytes |-> Num(4 * 1024 * 1024)]}

\* the buffer lengths the encoder may produce, around the budgets in use
JpegSizes == {1024 * 1024, 1024 * 1024 + 1, 4 * 1024 * 1024, 4 * 1024 * 1024 + 1}

EncodeOutcomes == {<<>>} \cup {Num(n) : n \in JpegSizes}

\* an Android device is connected, or no device is
ShotWorlds ==
    {[android |-> a, ios |-> {}] : a \in {{}, {1}}}

\* the steps of screenshot calls, one call after the other
NextScreenshots ==
    \/ \E p \in PlatformHints, compress \in BOOLEAN, options \in OptionSets,
          png \in PngBuffers : Screenshot(p, compress, options, png)
    \/ \E resizeOk \in BOOLEAN : JimpRead(resizeOk)
    \/ \E outcome \in EncodeOutcomes, resizeOk \in BOOLEAN : Encode(outcome, resizeOk)
    \/ \E outcome \in EncodeOutcomes : FinalEncode(outcome)
    \/ ShotReturn

NextCompress ==
    \/ NextScreenshots
    \/ \E w \in ShotWorlds : ToolEnv(w)

SpecCompress == Init /\ [][NextCompress]_vars

\* every await of compressScreenshot is on a promise of the image library,
\* which settles; the continuation then runs
FairCompress ==
    /\ WF_vars(\E resizeOk \in BOOLEAN : JimpRead(resizeOk))
    /\ WF_vars(\E outcome \in EncodeOutcomes, resizeOk \in BOOLEAN : Encode(outcome, resizeOk))
    /\ WF_vars(\E outcome \in EncodeOutcomes : FinalEncode(outcome))

\* the screenshot calls of a session in which no device connects or
\* disconnects, under that fairness
SpecCompressFair == Init /\ [][NextScreenshots]_vars /\ FairCompress

---------------------------------------------------------------------------
(* desktop-companion: WindowManager.getWindows on the three hosts.  The    *)
(* windows of the host and its focus signal are inputs of a call.          *)

MaxWindows == 2

OsNames == {"mac", "windows", "linux"}

\* the kinds of window a host has: its owning process, whether the host
\* lists it (visible and titled), its size
HostWindowKinds ==
    {[owner |-> "Finder", listed |-> TRUE, width |-> 100, height |-> 50],
     [owner |-> "java", listed |-> TRUE, width |-> 100, height |-> 50],
     [owner |-> "Finder", listed |-> TRUE, width |-> 0, height |-> 50],
     [owner |-> "Finder", listed |-> FALSE, width |-> 100, height |-> 50]}

\* the window at place i of the host: its handle is i, its position its own
HostWindowAt(i, kind) ==
    [handle |-> i, owner |-> kind.owner, listed |-> kind.listed,
     bounds |-> [x |-> 100 * (i - 1), y |-> 20, width |-> kind.width, height |-> kind.height]]

\* the windows a host may have, in enumeration order
HostWindowLists ==
    UNION {{[i \in 1..n |-> HostWindowAt(i, k[i])] : k \in [1..n -> HostWindowKinds]}
           : n \in 0..MaxWindows}

\* the title of the host window with handle i
WindowTitle(i) == ToString(i)

\* WindowInfo(id, title, bounds, focused, ownerName)
WindowInfo(id, title, bounds, focused, ownerName) ==
    [id |-> id, title |-> title, bounds |-> bounds, focused |-> focused,
     ownerName |-> ownerName]

\* the records the AppleScript of getMacWindows returns: windows of
\* positive size only
MacWindowScript(host) ==
    SelectSeq(host, LAMBDA w : w.bounds.width > 0 /\ w.bounds.height > 0)

\* the records of the second script: windows of Java processes
MacJavaScript(host) ==
    SelectSeq(MacWindowScript(host), LAMBDA w : w.owner = "java")

\* parseAppleScriptWindowList: ids mac_0, mac_1, ... in order
parseAppleScriptWindowList(records) ==
    [i \in 1..Len(records) |->
        WindowInfo(<<"mac", ToString(i - 1)>>, WindowTitle(records[i].handle),
                   records[i].bounds, FALSE,
                   records[i].owner)]

\* lines 160-170: the Java windows not yet listed are appended as
\* mac_java_<size of the list>
RECURSIVE AddJavaWindows(_, _, _)
AddJavaWindows(windows, javaWindows, existingKeys) ==
    IF javaWindows = <<>> THEN windows
    ELSE LET win == Head(javaWindows)
             key == <<win.title, win.bounds.x, win.bounds.y>>
         IN  AddJavaWindows(
                 IF key \in existingKeys THEN windows
                 ELSE Append(windows, [win EXCEPT !.id = <<"mac_java", ToString(Len(windows))>>]),
                 Tail(javaWindows), existingKeys)

\* windows[i] = windows[i].copy(focused = true)
MarkFocused(windows, i) ==
    [k \in 1..Len(windows) |-> IF k = i THEN [windows[k] EXCEPT !.focused = TRUE]
                               ELSE windows[k]]

\* lines 175-200: the first window of the frontmost application is focused,
\* else the first window; focusedApp is "throws" when the script cannot run
MacMarkFocus(windows, focusedApp) ==
    LET matching == {i \in DOMAIN windows : windows[i].ownerName = focusedApp}
    IN  IF focusedApp # "throws" /\ matching # {}
        THEN MarkFocused(windows, CHOOSE i \in matching : \A j \in matching : i <= j)
        ELSE IF windows # <<>> THEN MarkFocused(windows, 1)
        ELSE windows

\* getMacWindows; scanOk / javaOk: the two enumeration scripts ran
getMacWindows(host, scanOk, javaOk, focusedApp) ==
    LET scanned == IF scanOk THEN parseAppleScriptWindowList(MacWindowScript(host)) ELSE <<>>
        existingKeys == {<<scanned[i].title, scanned[i].bounds.x, scanned[i].bounds.y>>
                           : i \in DOMAIN scanned}
        withJava == IF javaOk
                    THEN AddJavaWindows(scanned,
                                        parseAppleScriptWindowList(MacJavaScript(host)),
                                        existingKeys)
                    ELSE scanned
    IN  MacMarkFocus(withJava, focusedApp)

\* getWindowsWindows: the visible, titled windows; focused is
\* hwnd == GetForegroundWindow(); foreground 0 is no window; enumOk is
\* whether User32 could be called
getWindowsWindows(host, enumOk, foreground) ==
    LET shown == SelectSeq(host, LAMBDA w : w.listed)
    IN  IF ~enumOk THEN <<>>
        ELSE [i \in 1..Len(shown) |->
                 WindowInfo(<<"win", ToString(shown[i].handle)>>, WindowTitle(shown[i].handle),
                            shown[i].bounds,
                            shown[i].handle = foreground, "")]

\* the X window id of the host window with handle i as wmctrl prints it
\* (hexadecimal) and as xdotool prints it (decimal)
HexId(i) ==
    CASE i = 1 -> <<"0", "x", "0", "0", "0", "0", "0", "0", "1", "0">>
      [] i = 2 -> <<"0", "x", "0", "0", "0", "0", "0", "0", "0", "a">>
      [] i = 3 -> <<"0", "x", "0", "0", "0", "0", "0", "0", "1", "6">>
      [] OTHER -> <<"0", "x", "0", "0", "0", "0", "0", "0", "0", "f">>
DecId(i) ==
    CASE i = 0 -> <<>>
      [] i = 1 -> <<"1", "6">>
      [] i = 2 -> <<"1", "0">>
      [] i = 3 -> <<"2", "2">>
      [] OTHER -> <<"1", "5">>

\* getLinuxWindows: the windows wmctrl lists; a window is focused when its
\* id contains the output of xdotool getactivewindow (active 0: xdotool
\* prints nothing); wmctrlOk / xdoOk: the tool could be started
getLinuxWindows(host, wmctrlOk, xdoOk, active) ==
    LET shown == SelectSeq(host, LAMBDA w : w.listed)
    IN  IF ~wmctrlOk THEN <<>>
        ELSE [i \in 1..Len(shown) |->
                 WindowInfo(HexId(shown[i].handle), WindowTitle(shown[i].handle), shown[i].bounds,
                            xdoOk /\ includes(HexId(shown[i].handle), DecId(active)), "")]

\* what the host tells one enumeration: whether the tools ran, and the
\* focus signal (a window handle, 0 for none; on the Mac the name of the
\* frontmost application)
HostSignals ==
    [scanOk : BOOLEAN, focusOk : BOOLEAN, active : 0..MaxWindows]

\* the name of the frontmost application for a signal
FrontmostApp(host, sig) ==
    IF ~sig.focusOk THEN "throws"
    ELSE IF sig.active \in DOMAIN host THEN host[sig.active].owner
    ELSE "loginwindow"

\* WindowManager.getWindows()
getWindows(os, host, sig) ==
    CASE os = "mac" -> getMacWindows(host, sig.scanOk, TRUE, FrontmostApp(host, sig))
      [] os = "windows" -> getWindowsWindows(host, sig.scanOk, sig.active)
      [] OTHER -> getLinuxWindows(host, sig.scanOk, sig.focusOk, sig.active)

---------------------------------------------------------------------------
(* desktop-companion: the accessibility services.  An element list is     *)
(* built by createElement calls, each of which takes the next index.       *)

\* Kotlin Int division truncates toward zero
KDiv(a, b) ==
    IF a >= 0 THEN a \div b ELSE -((-a) \div b)

\* BaseAccessibilityService.createElement; elementIndex is the index the
\* element takes (the field is incremented by the caller's fold)
createElement(elementIndex, text, id, role, b, clickable, enabled, focused) ==
    [index |-> elementIndex, id |-> id, text |-> text, role |-> role,
     bounds |-> [x |-> b.x, y |-> b.y, width |-> b.width, height |-> b.height],
     clickable |-> clickable, enabled |-> enabled, focused |-> focused,
     centerX |-> b.x + KDiv(b.width, 2), centerY |-> b.y + KDiv(b.height, 2)]

\* resetIndex()
resetIndex(svc) ==
    [svc EXCEPT !.elementIndex = 0]

\* windows.map { createElement(text = title, id = id, role = "Window", ...) }
\* of WindowsAccessibility and LinuxAccessibility, from index first
WindowElements(windows, first) ==
    [i \in 1..Len(windows) |->
        createElement(first + i - 1, windows[i].title, windows[i].id, "Window",
                      windows[i].bounds, TRUE, TRUE, windows[i].focused)]

\* MacOSAccessibility.getSimplifiedElements
getSimplifiedElements(windows, first) ==
    [i \in 1..Len(windows) |->
        createElement(first + i - 1, windows[i].title, <<>>, "AXWindow",
                      windows[i].bounds, TRUE, TRUE, FALSE)]

\* the roles parseAppleScriptElements takes as clickable
ClickableRoles ==
    {"AXButton", "AXLink", "AXCheckBox", "AXRadioButton", "AXMenuItem", "AXMenuButton",
     "AXTab", "AXTextField", "AXTextArea", "AXComboBox", "AXPopUpButton"}

\* parseAppleScriptElements: one element per record of the output
parseAppleScriptElements(records, first) ==
    [i \in 1..Len(records) |->
        createElement(first + i - 1, records[i].title, <<>>, records[i].role,
                      records[i].bounds, records[i].role \in ClickableRoles,
                      records[i].enabled, records[i].focused)]

\* what the frontmost application shows to the introspection script; the
\* script itself (lines 181 and 216) reports elements of positive size only
AppElements ==
    {<<>>,
     <<[role |-> "AXButton", title |-> "OK", enabled |-> TRUE, focused |-> TRUE,
        bounds |-> [x |-> 10, y |-> 30, width |-> 41, height |-> 21]]>>,
     <<[role |-> "AXStaticText", title |-> "", enabled |-> TRUE, focused |-> FALSE,
        bounds |-> [x |-> -5, y |-> 30, width |-> 0, height |-> 21]],
       [role |-> "AXButton", title |-> "OK", enabled |-> FALSE, focused |-> FALSE,
        bounds |-> [x |-> 60, y |-> 30, width |-> 41, height |-> 21]]>>}

IntrospectionScript(app) ==
    SelectSeq(app, LAMBDA e : e.bounds.width > 0 /\ e.bounds.height > 0)

\* how the osascript process of getUIElementsFromFrontmostApp ends: it
\* cannot be started, it exits with an error, or it prints the elements
IntroKinds == {"throws", "exit", "output"}

\* the time in ms the process takes; the last one is a process that is
\* still running 25 s after its start
IntroDurations == {1000, 6000, 25000}

HIERARCHY_CACHE_TTL_MS == 5000
APPLESCRIPT_TIMEOUT_SECONDS == 20

\* process.waitFor(timeout, SECONDS) returns nothing later than the timeout
waitFor_Unbounded(duration, timeout) ==
    [completed |-> TRUE, waited |-> duration]
waitFor(duration, timeout) ==
    IF duration <= timeout * 1000 THEN [completed |-> TRUE, waited |-> duration]
    ELSE [completed |-> FALSE, waited |-> timeout * 1000]

\* the primary screen in logical coordinates
ScreenSize == [x |-> 0, y |-> 0, width |-> 1440, height |-> 900]

\* getUIElementsFromFrontmostApp after the wait; an outcome is
\* [elements] or, when ScreenCapture() at line 259 throws, [thrown]
getUIElementsFromFrontmostApp(kind, completed, app, sizeOk) ==
    LET parsed == IF kind = "output" /\ completed
                  THEN parseAppleScriptElements(IntrospectionScript(app), 0)
                  ELSE <<>>
    IN  IF kind # "throws" /\ ~completed THEN [thrown |-> FALSE, elements |-> <<>>]
        ELSE IF parsed # <<>> THEN [thrown |-> FALSE, elements |-> parsed]
        ELSE IF ~sizeOk THEN [thrown |-> TRUE, elements |-> <<>>]
        ELSE [thrown |-> FALSE,
              elements |-> <<createElement(0, "Screen", <<>>, "AXWindow", ScreenSize,
                                           TRUE, TRUE, FALSE)>>]

\* lines 89-95 of MacOSAccessibility.getHierarchy
MacElements(windows, kind, completed, app, sizeOk) ==
    LET tried == getUIElementsFromFrontmostApp(kind, completed, app, sizeOk)
    IN  IF tried.thrown THEN getSimplifiedElements(windows, 0) ELSE tried.elements

\* UiHierarchy(windows, elements, scaleFactor)
UiHierarchy(windows, elements) ==
    [windows |-> windows, elements |-> elements, scaleFactor |-> 1]

\* checkPermissions of the three services; probe is how the probing process
\* ended: "exit0", "exit1" or "throws"
MacInstructions ==
    <<"1. System Settings > Privacy & Security > Accessibility",
      "2. Click the lock to make changes",
      "3. Enable access for Terminal or your IDE",
      "4. Restart the MCP server">>
MacErrorInstructions ==
    <<"1. Open System Settings > Privacy & Security > Accessibility",
      "2. Enable access for Terminal or your IDE",
      "3. Restart the MCP server",
      "Error: ">>
LinuxInstructions ==
    <<"AT-SPI2 accessibility service is not running.",
      "Install and enable it with:",
      "  sudo apt install at-spi2-core",
      "  systemctl --user enable at-spi-dbus-bus.service",
      "  systemctl --user start at-spi-dbus-bus.service">>

PermissionStatus(granted, instructions) ==
    [granted |-> granted, instructions |-> instructions]

MacCheckPermissions_Inverted(probe) ==
    IF probe = "exit0" THEN PermissionStatus(FALSE, MacInstructions)
    ELSE PermissionStatus(TRUE, <<>>)
MacCheckPermissions(probe) ==
    IF probe = "exit0" THEN PermissionStatus(TRUE, <<>>)
    ELSE IF probe = "exit1" THEN PermissionStatus(FALSE, MacInstructions)
    ELSE PermissionStatus(FALSE, MacErrorInstructions)

LinuxCheckPermissions(probe) ==
    IF probe = "exit1" THEN PermissionStatus(FALSE, LinuxInstructions)
    ELSE PermissionStatus(TRUE, <<>>)

WindowsCheckPermissions ==
    PermissionStatus(TRUE, <<>>)

---------------------------------------------------------------------------
(* desktop-companion: the calls on one AccessibilityService and on its     *)
(* WindowManager.  A call fires when no call is in progress; axCall then    *)
(* holds what the caller observes.                                          *)

\* the latest time at which a call starts or the clock is advanced
MaxClock == 7000

\* the number of denied permission checks that is remembered for observation
MaxDenied == 2

\* the steps by which time passes between two calls
TickSizes == {1000, 4999}

AxIdle == axCall = NoAxCall

\* windowManager.getWindows() called directly
GetWindows(host, sig) ==
    /\ AxIdle
    /\ axCall' = [pc |-> "done", op |-> "getWindows", host |-> host, sig |-> sig,
                  windows |-> getWindows(axs.os, host, sig)]
    /\ UNCHANGED <<dmVars, toolVars, shotVars, procVars, clock, consent, axs, axLog>>

\* how the probe of checkPermissions ends on a host: exit code 0 exactly
\* when the host grants introspection
Probe(probeOk) ==
    IF ~probeOk THEN "throws" ELSE IF consent THEN "exit0" ELSE "exit1"

\* checkPermissions(); probeOk is whether the probing process could be run
CheckPermissions(probeOk) ==
    LET probed == axs.os # "windows"
        probe == IF probed THEN Probe(probeOk) ELSE "none"
        status == CASE axs.os = "mac" -> MacCheckPermissions(probe)
                    [] axs.os = "windows" -> WindowsCheckPermissions
                    [] OTHER -> LinuxCheckPermissions(probe)
    IN  /\ AxIdle
        /\ axCall' = [pc |-> "done", op |-> "checkPermissions", probed |-> probed,
                      probe |-> probe, consent |-> consent, deniedBefore |-> axLog.denied,
                      status |-> status]
        /\ axLog' = [axLog EXCEPT !.denied = IF ~status.granted /\ @ < MaxDenied
                                             THEN @ + 1 ELSE @]
        /\ UNCHANGED <<dmVars, toolVars, shotVars, procVars, clock, consent, axs>>

\* getHierarchy of WindowsAccessibility and LinuxAccessibility; screenOk is
\* whether ScreenCapture() can be constructed
GetHierarchy(host, sig, screenOk) ==
    LET windows == getWindows(axs.os, host, sig)
        elements == WindowElements(windows, 0)
        svc == resetIndex(axs)
    IN  /\ AxIdle
        /\ axs.os # "mac"
        /\ axs' = IF screenOk
                  THEN [svc EXCEPT !.cachedElements = elements,
                                   !.elementIndex = Len(elements)]
                  ELSE svc
        /\ axCall' = [pc |-> "done", op |-> "getHierarchy", host |-> host, sig |-> sig,
                      windows |-> windows, error |-> ~screenOk,
                      hierarchy |-> IF screenOk THEN <<UiHierarchy(windows, elements)>>
                                    ELSE <<>>]
        /\ UNCHANGED <<dmVars, toolVars, shotVars, procVars, clock, consent, axLog>>

\* the cache test of line 79
CacheIsFresh(svc, now) ==
    svc.cachedHierarchy # <<>> /\ now - svc.hierarchyCacheTimestamp < HIERARCHY_CACHE_TTL_MS

\* what the caller of MacOSAccessibility.getHierarchy observes
MacCall(pc, host, sig, windows, intro) ==
    [pc |-> pc, op |-> "getHierarchy", host |-> host, sig |-> sig, started |-> clock,
     cachedBefore |-> axs.cachedHierarchy, createdBefore |-> axLog.createdAt,
     stampBefore |-> axs.hierarchyCacheTimestamp,
     enumerated |-> FALSE, probed |-> FALSE, windows |-> windows, intro |-> intro,
     waited |-> 0, killed |-> FALSE, error |-> FALSE, hierarchy |-> <<>>]

\* MacOSAccessibility.getHierarchy up to the wait of line 235; intro is how
\* the introspection process will end: [kind, duration, app]
MacGetHierarchy(host, sig, screenOk, intro) ==
    LET windows == getWindows("mac", host, sig)
        call == MacCall("done", host, sig, <<>>, intro)
    IN  /\ AxIdle
        /\ axs.os = "mac"
        /\ clock <= MaxClock
        /\ IF CacheIsFresh(axs, clock)
           THEN /\ axCall' = [call EXCEPT !.hierarchy = axs.cachedHierarchy]
                /\ axs' = axs
           ELSE IF ~screenOk
           THEN /\ axCall' = [call EXCEPT !.enumerated = TRUE, !.windows = windows,
                                          !.error = TRUE]
                /\ axs' = resetIndex(axs)
           ELSE /\ axCall' = [call EXCEPT !.pc = "introspect", !.enumerated = TRUE,
                                          !.probed = TRUE, !.windows = windows]
                /\ axs' = resetIndex(axs)
        /\ UNCHANGED <<dmVars, toolVars, shotVars, procVars, clock, consent, axLog>>

\* the wait of line 235 returns, then lines 237-273 and 97-109; sizeOk is
\* whether ScreenCapture() at line 259 can be constructed
IntrospectionEnds(sizeOk) ==
    LET intro == axCall.intro
        w == IF intro.kind = "throws" THEN [completed |-> TRUE, waited |-> 0]
             ELSE waitFor(intro.duration, APPLESCRIPT_TIMEOUT_SECONDS)
        elements == MacElements(axCall.windows, intro.kind, w.completed, intro.app, sizeOk)
        hierarchy == UiHierarchy(axCall.windows, elements)
    IN  /\ axCall.pc = "introspect"
        /\ clock' = clock + w.waited
        /\ axs' = [axs EXCEPT !.cachedElements = elements,
                              !.elementIndex = Len(elements),
                              !.cachedHierarchy = <<hierarchy>>,
                              !.hierarchyCacheTimestamp = axCall.started]
        /\ axLog' = [axLog EXCEPT !.createdAt = clock']
        /\ axCall' = [axCall EXCEPT !.pc = "done", !.waited = w.waited,
                                    !.killed = ~w.completed,
                                    !.hierarchy = <<hierarchy>>]
        /\ UNCHANGED <<dmVars, toolVars, shotVars, procVars, consent>>

\* the caller has taken the outcome
AxReturn ==
    /\ axCall # NoAxCall
    /\ axCall.pc = "done"
    /\ axCall' = NoAxCall
    /\ UNCHANGED <<dmVars, toolVars, shotVars, procVars, clock, consent, axs, axLog>>

\* time passes between two calls
Tick(d) ==
    /\ AxIdle
    /\ clock + d <= MaxClock
    /\ clock' = clock + d
    /\ UNCHANGED <<dmVars, toolVars, shotVars, procVars, consent, axs, axCall, axLog>>

\* the operator grants or withdraws the introspection right on the host
SetConsent(granted) ==
    /\ AxIdle
    /\ consent # granted
    /\ consent' = granted
    /\ UNCHANGED <<dmVars, toolVars, shotVars, procVars, clock, axs, axCall, axLog>>

\* the ways the introspection process of one call may end: it cannot be
\* started, it fails, it prints the elements of the application after 1 s
\* or 6 s, or it is still running after 25 s
Introspections ==
    {[kind |-> "throws", duration |-> 1000, app |-> <<>>],
     [kind |-> "exit", duration |-> 1000, app |-> <<>>]}
    \cup [kind : {"output"}, duration : {1000}, app : AppElements]
    \cup {[kind |-> "output", duration |-> d, app |-> app]
            : d \in IntroDurations \ {1000}, app \in {a \in AppElements : Len(a) = 1}}

\* the hosts and focus signals of the hierarchy calls: every window is
\* listed and owned by the Finder, some have no width, focus is known
HierarchyHosts ==
    {h \in HostWindowLists : \A i \in DOMAIN h : h[i].listed /\ h[i].owner = "Finder"}
HierarchySignals ==
    {sig \in HostSignals : sig.scanOk /\ sig.focusOk /\ sig.active <= 1}

\* the companion has just started on one of the hosts
InitAccess ==
    /\ MobileInit
    /\ \E os \in OsNames : DesktopInit(os)

\* window enumeration and permission checks
NextDesktop ==
    \/ \E host \in HostWindowLists, sig \in HostSignals : GetWindows(host, sig)
    \/ \E probeOk \in BOOLEAN : CheckPermissions(probeOk)
    \/ \E granted \in BOOLEAN : SetConsent(granted)
    \/ AxReturn

SpecDesktop == InitAccess /\ [][NextDesktop]_vars

\* the calls that start or end a getHierarchy
HierarchyCalls ==
    \/ \E host \in HierarchyHosts, sig \in HierarchySignals, screenOk \in BOOLEAN :
          GetHierarchy(host, sig, screenOk)
    \/ \E host \in HierarchyHosts, sig \in HierarchySignals, screenOk \in BOOLEAN,
          intro \in Introspections : MacGetHierarchy(host, sig, screenOk, intro)
    \/ \E sizeOk \in BOOLEAN : IntrospectionEnds(sizeOk)
    \/ AxReturn

\* hierarchy calls as time passes
NextAccess ==
    \/ HierarchyCalls
    \/ \E d \in TickSizes : Tick(d)

SpecAccess == InitAccess /\ [][NextAccess]_vars

\* a started introspection process ends or is killed, and the call goes on
FairAccess ==
    WF_vars(\E sizeOk \in BOOLEAN : IntrospectionEnds(sizeOk))

\* hierarchy calls made one after the other, under that fairness
SpecAccessFair == InitAccess /\ [][HierarchyCalls]_vars /\ FairAccess

---------------------------------------------------------------------------
(* GradleLauncher: launch and stop of the Gradle child process.  The       *)
(* ChildProcess object is Node's: kill(signal) delivers the signal to a    *)
(* process that has not exited, then sets killed = true and returns true;  *)
(* on a process that has exited it returns false and sets nothing.         *)

\* the grace period of stop() in ms
StopGraceMs == 5000

\* ChildProcess.kill(signal) at time now
ChildKill(child, signal, now) ==
    IF child.state = "running"
    THEN [child EXCEPT !.killed = TRUE,
                       !.signals = Append(@, [signal |-> signal, at |-> now])]
    ELSE child

\* launch(options): spawn(gradle, args, ...); ignoresTerm: the process does
\* not end on SIGTERM
Launch(ignoresTerm) ==
    /\ gradle = NoChild
    /\ gradle' = [state |-> "running", ignoresTerm |-> ignoresTerm, killed |-> FALSE,
                  signals |-> <<>>, timers |-> {}, stops |-> <<>>, fired |-> <<>>]
    /\ UNCHANGED <<dmVars, toolVars, shotVars, accVars, server>>

\* stop(process)
Stop ==
    /\ gradle # NoChild
    /\ clock + StopGraceMs <= MaxClock
    /\ LET seen == [at |-> clock, running |-> gradle.state = "running",
                    killed |-> gradle.killed]
           termed == ChildKill(gradle, "SIGTERM", clock)
       IN  gradle' = IF ~gradle.killed
                     THEN [termed EXCEPT !.timers = @ \cup {clock + StopGraceMs},
                                         !.stops = Append(@, seen)]
                     ELSE [gradle EXCEPT !.stops = Append(@, seen)]
    /\ Len(gradle.stops) < 2
    /\ UNCHANGED <<dmVars, toolVars, shotVars, accVars, server>>

\* the setTimeout callback of stop(): lines 220-224, for the timer due at t
StopTimerFires(t) ==
    /\ gradle # NoChild
    /\ t \in gradle.timers
    /\ clock >= t
    /\ LET seen == [at |-> clock, running |-> gradle.state = "running"]
           base == [gradle EXCEPT !.timers = @ \ {t}, !.fired = Append(@, seen)]
       IN  gradle' = IF ~gradle.killed THEN ChildKill(base, "SIGKILL", clock) ELSE base
    /\ UNCHANGED <<dmVars, toolVars, shotVars, accVars, server>>

\* the signals the process has received
Received(child) == {child.signals[i].signal : i \in DOMAIN child.signals}

\* the process ends: killed by SIGKILL, or, unless it ignores SIGTERM, on
\* SIGTERM or when its task is done
ChildExits ==
    /\ gradle # NoChild
    /\ gradle.state = "running"
    /\ "SIGKILL" \in Received(gradle) \/ ~gradle.ignoresTerm
    /\ gradle' = [gradle EXCEPT !.state = "exited"]
    /\ UNCHANGED <<dmVars, toolVars, shotVars, accVars, server>>

\* time passes
GradleTick(d) ==
    /\ gradle # NoChild
    /\ clock + d <= MaxClock
    /\ clock' = clock + d
    /\ UNCHANGED <<dmVars, toolVars, shotVars, consent, axs, axCall, axLog, procVars>>

NextGradle ==
    \/ \E ignoresTerm \in BOOLEAN : Launch(ignoresTerm)
    \/ Stop
    \/ \E t \in (IF gradle = NoChild THEN {} ELSE gradle.timers) : StopTimerFires(t)
    \/ ChildExits
    \/ \E d \in TickSizes : GradleTick(d)

SpecGradle == Init /\ [][NextGradle]_vars

---------------------------------------------------------------------------
(* index.ts: the CallToolRequestSchema handler as the stdio transport runs *)
(* it.  The handler is an async function registered with                   *)
(* server.setRequestHandler; the server invokes it for a request when the  *)
(* request is read from stdin.  Neither the handler nor handleTool holds a *)
(* lock or a queue, so a handler suspended at an await leaves the event    *)
(* loop free to read the next request and start its handler.               *)

\* tool calls received in one run
MaxCalls == 4

\* the tools of the calls: one that handleTool answers without awaiting
\* anything that leaves the event loop, and the two that suspend
ServerTools == {"tap", "screenshot", "wait"}

\* await deviceManager.screenshot(...) suspends in compression; await new
\* Promise(resolve => setTimeout(resolve, ms)) suspends on the timer
Suspends(tool) == tool \in {"screenshot", "wait"}

\* the handlers that have started and not yet returned
InFlight == {server.handlers[i].id : i \in DOMAIN server.handlers}

\* a request arrives and its handler starts; a handler that never leaves the
\* event loop returns its reply in the same turn
Receive(tool) ==
    LET id == server.received + 1
    IN  /\ server.received < MaxCalls
        /\ server' = [server EXCEPT
                        !.received = id,
                        !.started = Append(@, id),
                        !.handlers = IF Suspends(tool)
                                     THEN Append(@, [id |-> id, tool |-> tool])
                                     ELSE @,
                        !.replied = IF Suspends(tool) THEN @ ELSE Append(@, id)]
        /\ UNCHANGED <<dmVars, toolVars, shotVars, accVars, gradle>>

\* the compression or the timer of the suspended handler i settles: the
\* handler resumes and returns its reply
Resume(i) ==
    /\ i \in DOMAIN server.handlers
    /\ server' = [server EXCEPT
                    !.handlers = SelectSeq(@, LAMBDA h : h.id # server.handlers[i].id),
                    !.replied = Append(@, server.handlers[i].id)]
    /\ UNCHANGED <<dmVars, toolVars, shotVars, accVars, gradle>>

NextServer ==
    \/ \E tool \in ServerTools : Receive(tool)
    \/ \E i \in 1..MaxCalls : Resume(i)

SpecServer == Init /\ [][NextServer]_vars

---------------------------------------------------------------------------
(* Properties of DeviceManager, checked under Spec.  A call is the step    *)
(* from an Idle state to the state holding its outcome in last; the device *)
(* world does not change during a call.                                    *)

IsCommandCall == last = Idle /\ last'.op \in UnifiedCommands
IsSetDeviceCall == last = Idle /\ last'.op = "setDevice"

Enumerated == {getAllDevices[i] : i \in 1..Len(getAllDevices)}
EnumeratedIds == {d.id : d \in Enumerated}

\* the first device of the enumeration whose index is in idx
FirstOf(idx) == getAllDevices[CHOOSE i \in idx : \A j \in idx : i <= j]

\* usable devices as the specification counts them
UsableIdx == {i \in 1..Len(getAllDevices) :
                 getAllDevices[i].state \in {"device", "booted", "running"}}

\* C1 as stated: a command without platform hint and without active device
\* activates the only usable device, and fails with NoActiveDevice when zero
\* or several usable devices are enumerated.
C1_ExactlyOneUsable ==
    [][(IsCommandCall /\ last'.platform = Undefined /\ activeDevice = NoDevice)
        => IF Cardinality(UsableIdx) = 1
           THEN /\ last'.error = "none"
                /\ activeDevice' = FirstOf(UsableIdx)
                /\ last'.client = FirstOf(UsableIdx).platform
           ELSE /\ last'.error = "No active device"
                /\ activeDevice' = NoDevice]_vars

\* devices whose state is "device" or "booted"
BootedIdx == {i \in 1..Len(getAllDevices) :
                 getAllDevices[i].state \in {"device", "booted"}}

\* C1 (amended): a command without platform hint and without active device
\* enumerates the devices; if at least one has state "device" or "booted",
\* the first such device in enumeration order becomes the active device and
\* its platform's client is returned; only when there is none does the call
\* fail with NoActiveDevice, leaving the active device unset.
C1_FirstUsableActivated ==
    [][(IsCommandCall /\ last'.platform = Undefined /\ activeDevice = NoDevice)
        => /\ last'.enums >= 1
           /\ IF BootedIdx # {}
              THEN /\ last'.error = "none"
                   /\ activeDevice' = FirstOf(BootedIdx)
                   /\ last'.client = FirstOf(BootedIdx).platform
              ELSE /\ last'.error = "No active device"
                   /\ activeDevice' = NoDevice]_vars

\* a command without hint has just activated a device although two usable
\* devices were enumerated
C1_Witness ==
    /\ last.op \in UnifiedCommands /\ last.platform = Undefined
    /\ last.enums = 2 /\ last.error = "none"
    /\ Cardinality(BootedIdx) >= 2
    /\ activeDevice = FirstOf(BootedIdx)

\* usable devices of the hinted platform
UsableOfIdx(platform) == {i \in UsableIdx : getAllDevices[i].platform = platform}

\* C2: setDevice(id, hint) with an id that matches no enumerated device
\* returns and activates the first usable device of the hinted platform,
\* and fails with DeviceNotFound when there is none.
C2_FallbackHonoursHint ==
    (last.op = "setDevice" /\ last.platform # Undefined /\ last.deviceId \notin EnumeratedIds)
    => IF UsableOfIdx(last.platform) # {}
       THEN /\ last.error = "none"
            /\ last.device = FirstOf(UsableOfIdx(last.platform))
            /\ last.device.platform = last.platform
            /\ activeDevice = last.device
       ELSE last.error = "Device not found"

\* C3: setDevice(id) without platform hint and with an id that matches no
\* enumerated device fails with DeviceNotFound and leaves the active device
\* and both clients' device ids as they were.
C3_UnknownIdFails ==
    [][(IsSetDeviceCall /\ last'.platform = Undefined /\ last'.deviceId \notin EnumeratedIds)
        => /\ last'.error = "Device not found"
           /\ activeDevice' = activeDevice
           /\ androidClient'.deviceId = androidClient.deviceId
           /\ iosClient'.deviceId = iosClient.deviceId]_vars

\* setDevice of an unknown id has failed while a usable device is connected
\* and another device stays active
C3_Witness ==
    /\ last.op = "setDevice" /\ last.platform = Undefined
    /\ last.deviceId \notin EnumeratedIds
    /\ last.error = "Device not found"
    /\ BootedIdx # {}
    /\ activeDevice # NoDevice

\* C4: a command with a platform hint gets that platform's client in every
\* state, without enumerating devices and without changing the active
\* device or either client's device id.
C4_HintIsUnconditional ==
    [][(IsCommandCall /\ last'.platform # Undefined)
        => /\ last'.error = "none"
           /\ last'.client = last'.platform
           /\ last'.enums = 0
           /\ activeDevice' = activeDevice
           /\ androidClient' = androidClient
           /\ iosClient' = iosClient]_vars

\* a command hinted at iOS was routed to the iOS client while an Android
\* device is active and no iOS device is enumerated
C4_Witness ==
    /\ last.op \in UnifiedCommands /\ last.platform = "ios" /\ last.client = "ios"
    /\ activeDevice.platform = "android"
    /\ \A d \in Enumerated : d.platform # "ios"

\* C5: after a successful setDevice returning D (called directly, or by the
\* implicit activation of getClient), the active device is D, the client of
\* D.platform is scoped to D.id and the other client's device id is unchanged.
C5_SetDeviceEffect ==
    [][/\ (IsSetDeviceCall /\ last'.error = "none")
          => /\ activeDevice' = last'.device
             /\ IF last'.device.platform = "android"
                THEN androidClient'.deviceId = last'.device.id
                ELSE iosClient'.deviceId = last'.device.id
             /\ last'.device.platform = "android" => iosClient' = iosClient
             /\ last'.device.platform = "ios" => androidClient' = androidClient
       /\ (IsCommandCall /\ last'.enums = 2 /\ last'.error = "none")
          => /\ IF activeDevice'.platform = "android"
                THEN androidClient'.deviceId = activeDevice'.id
                ELSE iosClient'.deviceId = activeDevice'.id
             /\ activeDevice'.platform = "android" => iosClient' = iosClient
             /\ activeDevice'.platform = "ios" => androidClient' = androidClient]_vars

\* setDevice has selected an iOS device while the Android client stays
\* scoped to the Android device selected before
C5_Witness ==
    /\ last.op = "setDevice" /\ last.error = "none"
    /\ last.device.platform = "ios"
    /\ activeDevice = last.device
    /\ iosClient.deviceId = last.device.id
    /\ androidClient.deviceId \in AndroidIds

\* C6: with no active device and an empty enumeration, a unified command
\* without platform hint fails with NoActiveDevice, issues no backend
\* command and leaves the active device unset.
C6_NoDevicesNoCommand ==
    [][(IsCommandCall /\ last'.platform = Undefined /\ activeDevice = NoDevice
          /\ Len(getAllDevices) = 0)
        => /\ last'.error = "No active device"
           /\ last'.calls = <<>>
           /\ activeDevice' = NoDevice]_vars

\* a command has failed with NoActiveDevice while both backends throw
C6_Witness ==
    /\ last.op \in UnifiedCommands /\ last.platform = Undefined
    /\ last.error = "No active device"
    /\ ~adbUp /\ ~simUp
    /\ activeDevice = NoDevice

---------------------------------------------------------------------------
(* Properties of the tool handlers, checked under SpecTool, on the state   *)
(* that holds the reply of a call.                                         *)

\* the call that just replied looked elements up on Android: it fetched
\* the hierarchy from the Android client
FetchedHierarchy ==
    \E i \in DOMAIN reply.calls : reply.calls[i].method = "getUiHierarchy"

\* the matches of the query of the call that just replied, in traversal
\* order, in the hierarchy that call parsed
MatchesOfReply ==
    IF reply.text # "" THEN findByText(cachedElements, reply.text)
    ELSE findByResourceId(cachedElements, reply.resourceId)

\* traversal positions of the clickable matches
ClickableIdx(found) == {i \in DOMAIN found : found[i].clickable}

\* C7: a tap by text or by resourceId on Android whose query matches in
\* the freshly parsed hierarchy dispatches exactly one tap, at the centre
\* of the first clickable match in traversal order, and at the centre of
\* the first match only when no match is clickable.
C7_TapPrefersClickable ==
    (/\ reply # NoReply
     /\ reply.tool = "tap"
     /\ reply.text # "" \/ reply.resourceId # ""
     /\ FetchedHierarchy
     /\ reply.kind # "Element with index not found"
     /\ MatchesOfReply # <<>>)
    => LET found == MatchesOfReply
           idx == ClickableIdx(found)
           target == IF idx = {} THEN found[1]
                     ELSE found[CHOOSE i \in idx : \A j \in idx : i <= j]
           calls == reply.calls
           taps == SelectSeq(calls, LAMBDA c : c.method = "tap")
       IN  /\ reply.kind = "Tapped at"
           /\ Len(taps) = 1
           /\ calls[Len(calls)] = taps[1]
           /\ taps[1].client = "android"
           /\ taps[1].x = <<target.centerX>>
           /\ taps[1].y = <<target.centerY>>

\* a tap by text has replied: two elements matched, the first not clickable
\* and the second clickable, and the tap went to the centre of the second
C7_Witness ==
    /\ reply # NoReply
    /\ reply.tool = "tap"
    /\ reply.text = "fo"
    /\ reply.kind = "Tapped at"
    /\ Len(MatchesOfReply) >= 2
    /\ ~MatchesOfReply[1].clickable
    /\ MatchesOfReply[2].clickable
    /\ reply.calls # <<>>
    /\ reply.calls[Len(reply.calls)].method = "tap"
    /\ reply.calls[Len(reply.calls)].x = <<MatchesOfReply[2].centerX>>
    /\ reply.calls[Len(reply.calls)].y = <<MatchesOfReply[2].centerY>>
    /\ reply.calls[1].method = "getUiHierarchy"

---------------------------------------------------------------------------
(* Properties of compressScreenshot, checked under SpecCompress, on the    *)
(* state in which the screenshot request has settled.                      *)

\* the request went through compressScreenshot and resolved
CompressReturned == result.status = "returned" /\ job # NoJob

LoopEncodes == SelectSeq(job.encodes, LAMBDA e : e.step = "loop")
FinalEncodes == SelectSeq(job.encodes, LAMBDA e : e.step = "final")

\* every encode of the quality loop produced more than maxSize bytes
AllLoopEncodesExceed(maxSize) ==
    /\ Len(LoopEncodes) = 5
    /\ \A i \in DOMAIN LoopEncodes : Gt(LoopEncodes[i].length, maxSize)

C9_FallsBackToPng ==
    (result # NoResult /\ job # NoJob /\ job.thrown \in {"decode", "encode"})
    => /\ result.status = "returned"
       /\ result.mimeType = "image/png"
       /\ result.data = ToBase64(job.png.bytes)

NotSupplied(options, key) == key \notin DOMAIN options \/ options[key] = Undef

\* compressScreenshot has decoded the image and computed its target size
Sized == job # NoJob /\ job.pc # "read" /\ job.thrown # "decode"

\* C11: an option the caller does not supply takes its default (maxWidth
\* 800, maxHeight 1400, quality 70, maxSizeBytes 1024 * 1024); a request
\* without maxWidth and maxHeight whose source exceeds 800 x 1400 gets a
\* target within 800 x 1400.
C11_DefaultsApply ==
    job # NoJob =>
        /\ NotSupplied(job.options, "maxWidth") => Opt(job.opts, "maxWidth") = Num(800)
        /\ NotSupplied(job.options, "maxHeight") => Opt(job.opts, "maxHeight") = Num(1400)
        /\ NotSupplied(job.options, "quality") => Opt(job.opts, "quality") = Num(70)
        /\ NotSupplied(job.options, "maxSizeBytes")
              => Opt(job.opts, "maxSizeBytes") = Num(1024 * 1024)
        /\ (/\ Sized
            /\ NotSupplied(job.options, "maxWidth")
            /\ NotSupplied(job.options, "maxHeight")
            /\ job.png.width > 800 \/ job.png.height > 1400)
           => Le(job.newWidth, Num(800)) /\ Le(job.newHeight, Num(1400))

\* the quality loop is over: the final step is pending or the call returned
LoopOver == job # NoJob /\ job.pc \in {"final", "done"}

\* Math.max(20, q - 15) as JavaScript evaluates it: NaN when q is no number
QualityAfter(q) == IF ~IsNum(q) THEN NaN ELSE IF q[1] >= 35 THEN Num(q[1] - 15) ELSE Num(20)

\* C12: the encodes of the quality loop use q1 = quality and
\* q(k+1) = max(20, qk - 15); every encode before the last of the loop
\* exceeded maxSizeBytes, and the loop ends at the first encode within
\* maxSizeBytes or else after exactly 5 encodes (70, 55, 40, 25, 20 for
\* quality 70).
C12_QualitySchedule ==
    (job # NoJob /\ LoopEncodes # <<>>) =>
        LET maxSize == Opt(job.opts, "maxSizeBytes")
            n == Len(LoopEncodes)
        IN  /\ LoopEncodes[1].quality = Opt(job.opts, "quality")
            /\ \A k \in 1..(n - 1) :
                  /\ LoopEncodes[k + 1].quality = QualityAfter(LoopEncodes[k].quality)
                  /\ ~Le(LoopEncodes[k].length, maxSize)
            /\ n <= 5
            /\ LoopOver => (Le(LoopEncodes[n].length, maxSize) \/ n = 5)
            /\ (job.pc = "encode") => (n < 5 /\ ~Le(LoopEncodes[n].length, maxSize))
            /\ (n = 5 /\ Opt(job.opts, "quality") = Num(70))
                  => [k \in 1..5 |-> LoopEncodes[k].quality]
                       = <<Num(70), Num(55), Num(40), Num(25), Num(20)>>

\* with quality 70 every encode of the loop exceeded the budget: five
\* encodes at 70, 55, 40, 25, 20
C12_Witness ==
    /\ LoopOver
    /\ Len(LoopEncodes) = 5
    /\ LoopEncodes[1].quality = Num(70)
    /\ LoopEncodes[4].quality = Num(25)
    /\ LoopEncodes[5].quality = Num(20)
    /\ ~Le(LoopEncodes[5].length, Opt(job.opts, "maxSizeBytes"))

\* compressScreenshot is suspended at one of its awaits
CompressRunning == job # NoJob /\ job.pc \in {"read", "encode", "final"}

\* at most 5 loop encodes, then at most one final encode at quality 50 that
\* comes last; once the loop is over the final step is taken exactly when
\* the last loop encode exceeded maxSizeBytes; the result of the final
\* encode is what is returned
BoundedEncodes ==
    job # NoJob =>
        LET n == Len(LoopEncodes)
            maxSize == Opt(job.opts, "maxSizeBytes")
        IN  /\ n <= 5
            /\ Len(FinalEncodes) <= 1
            /\ Len(job.encodes) = n + Len(FinalEncodes)
            /\ FinalEncodes # <<>> =>
                  /\ job.encodes[Len(job.encodes)] = FinalEncodes[1]
                  /\ FinalEncodes[1].quality = Num(50)
                  /\ job.pc = "done"
                  /\ result.status = "returned"
                  /\ result.data = ToBase64(FinalEncodes[1].length[1])
            /\ LoopOver =>
                  ((job.pc = "final" \/ FinalEncodes # <<>>)
                     <=> Gt(LoopEncodes[n].length, maxSize))
            /\ job.pc = "final" => FinalEncodes = <<>>

\* C13: compressScreenshot always terminates: at most 5 loop encodes, then
\* at most one final shrink-and-encode at quality 50, taken exactly when
\* the last loop encode still exceeded maxSizeBytes, whose result is
\* returned with no further retry; a running call always settles.
C13_Terminates ==
    /\ []BoundedEncodes
    /\ CompressRunning ~> (result # NoResult)

\* the call returned the encode of the final step, which met the budget
C13_Witness ==
    /\ CompressReturned
    /\ Len(LoopEncodes) = 5
    /\ Len(FinalEncodes) = 1
    /\ Le(FinalEncodes[1].length, Opt(job.opts, "maxSizeBytes"))

\* the limit the compressor is to apply for key: the caller's value, or the
\* default when the caller supplies none
LimitOf(key, default) ==
    IF NotSupplied(job.options, key) THEN default ELSE job.options[key][1]

\* round(a / b), halves up, written with a remainder
Rounded(a, b) == IF 2 * (a % b) >= b THEN a \div b + 1 ELSE a \div b

\* C14: the target of a w x h source is (w, h) when w <= maxWidth and
\* h <= maxHeight, otherwise (round(w * r), round(h * r)) with
\* r = min(maxWidth / w, maxHeight / h); it never exceeds maxWidth or
\* maxHeight; the image is resized only when the target differs from the
\* source; 4000 x 3000 under 800 x 1400 gives 800 x 600.
C14_TargetDimensions ==
    Sized =>
        LET w == job.png.width
            h == job.png.height
            maxWidth == LimitOf("maxWidth", 800)
            maxHeight == LimitOf("maxHeight", 1400)
            byWidth == maxWidth * h <= maxHeight * w
            target == IF w <= maxWidth /\ h <= maxHeight THEN <<w, h>>
                      ELSE IF byWidth THEN <<Rounded(w * maxWidth, w), Rounded(h * maxWidth, w)>>
                      ELSE <<Rounded(w * maxHeight, h), Rounded(h * maxHeight, h)>>
        IN  /\ job.newWidth = Num(target[1])
            /\ job.newHeight = Num(target[2])
            /\ target[1] <= maxWidth /\ target[2] <= maxHeight
            /\ (\E i \in DOMAIN job.resizes : job.resizes[i].step = "fit")
                  => target # <<w, h>>
            /\ (w = 4000 /\ h = 3000 /\ maxWidth = 800 /\ maxHeight = 1400)
                  => target = <<800, 600>>


---------------------------------------------------------------------------
(* Properties of the desktop companion.  Those of getWindows and            *)
(* checkPermissions are checked under SpecDesktop, those of getHierarchy    *)
(* under SpecAccess.                                                        *)

WindowsReturned ==
    axCall.pc = "done" /\ axCall.op = "getWindows"

FocusedWindows(windows) ==
    {i \in DOMAIN windows : windows[i].focused}

\* the focus signal of the call names one of the windows it enumerated
FocusSignalMatches ==
    /\ axCall.sig.focusOk \/ axs.os = "windows"
    /\ IF axs.os = "mac"
       THEN \E i \in DOMAIN axCall.windows :
               axCall.windows[i].ownerName = FrontmostApp(axCall.host, axCall.sig)
       ELSE \E i \in DOMAIN axCall.windows : axCall.windows[i].title = WindowTitle(axCall.sig.active)

\* C19: every non-empty getWindows() result, on every host, has exactly one
\* focused window, and that window is the first enumerated one when the
\* focus signal is missing, empty or matches no enumerated window
C19_ExactlyOneFocused ==
    (WindowsReturned /\ axCall.windows # <<>>) =>
        /\ Cardinality(FocusedWindows(axCall.windows)) = 1
        /\ ~FocusSignalMatches => axCall.windows[1].focused

\* the same on the Mac alone
C19_OnMac ==
    axs.os = "mac" => C19_ExactlyOneFocused

HierarchyReturned ==
    axCall.pc = "done" /\ axCall.op = "getHierarchy" /\ axCall.hierarchy # <<>>

ReturnedElements == axCall.hierarchy[1].elements

\* C20: no element of a returned hierarchy has a width or height of 0 or
\* less; the elements carry the indices 0..length-1 in order, and their
\* centre is x + width/2, y + height/2
C20_ElementsWellFormed ==
    HierarchyReturned =>
        \A i \in DOMAIN ReturnedElements :
            LET e == ReturnedElements[i]
            IN  /\ e.bounds.width > 0 /\ e.bounds.height > 0
                /\ e.index = i - 1
                /\ e.centerX = e.bounds.x + KDiv(e.bounds.width, 2)
                /\ e.centerY = e.bounds.y + KDiv(e.bounds.height, 2)

\* the same on the Mac alone, whose scripts report windows and elements of
\* positive size only
C20_OnMac ==
    axs.os = "mac" => C20_ElementsWellFormed

\* the indices and centres alone, on every host
C20_IndicesAndCentres ==
    HierarchyReturned =>
        \A i \in DOMAIN ReturnedElements :
            LET e == ReturnedElements[i]
            IN  /\ e.index = i - 1
                /\ e.centerX = e.bounds.x + KDiv(e.bounds.width, 2)
                /\ e.centerY = e.bounds.y + KDiv(e.bounds.height, 2)

\* a getHierarchy call of the Mac service that ran the introspection script
MacIntrospected ==
    axs.os = "mac" /\ axCall.pc = "done" /\ axCall.op = "getHierarchy" /\ axCall.probed

\* the script could not be started or failed, was killed at the timeout, or
\* reported no element
IntrospectionFailed ==
    \/ axCall.intro.kind \in {"throws", "exit"}
    \/ axCall.killed
    \/ IntrospectionScript(axCall.intro.app) = <<>>

\* one element per window, with the bounds of the window, a window role
\* and clickable
OneElementPerWindow(elements, windows) ==
    /\ Len(elements) = Len(windows)
    /\ \A i \in DOMAIN windows :
          /\ elements[i].bounds = windows[i].bounds
          /\ elements[i].role \in {"AXWindow", "Window"}
          /\ elements[i].clickable

\* C16: whenever introspection errors, times out or yields no element,
\* getHierarchy returns without error a hierarchy whose elements are exactly
\* one element per enumerated window
C16_FallsBackToWindows ==
    (MacIntrospected /\ IntrospectionFailed) =>
        /\ ~axCall.error
        /\ axCall.hierarchy # <<>>
        /\ OneElementPerWindow(axCall.hierarchy[1].elements, axCall.hierarchy[1].windows)

\* what holds of it: the call returns a hierarchy without error
C16_ReturnsWithoutError ==
    (MacIntrospected /\ IntrospectionFailed) => (~axCall.error /\ axCall.hierarchy # <<>>)

\* a getHierarchy call of the Mac service has returned or thrown
MacReturned ==
    axs.os = "mac" /\ axCall.pc = "done" /\ axCall.op = "getHierarchy"

\* the call returned the cached hierarchy and did nothing else
ServedFromCache ==
    /\ axCall.hierarchy = axCall.cachedBefore
    /\ ~axCall.enumerated
    /\ ~axCall.probed

\* C15: a getHierarchy call made less than 5000 ms after the cached
\* hierarchy was created returns that hierarchy without enumerating windows
\* or probing introspection; a call made later recomputes
C15_CacheValidAfterCreation ==
    (MacReturned /\ axCall.cachedBefore # <<>>) =>
        IF axCall.started - axCall.createdBefore < HIERARCHY_CACHE_TTL_MS
        THEN ServedFromCache
        ELSE axCall.enumerated

\* what holds: the 5000 ms count from the start of the call that computed
\* the cached hierarchy
C15_CacheValidAfterCallStart ==
    (MacReturned /\ axCall.cachedBefore # <<>>) =>
        IF axCall.started - axCall.stampBefore < HIERARCHY_CACHE_TTL_MS
        THEN ServedFromCache
        ELSE axCall.enumerated

\* the introspection process of the call in progress is still running at
\* the wall-clock bound
OutlastsBound(call) ==
    call.intro.kind # "throws" /\ call.intro.duration > APPLESCRIPT_TIMEOUT_SECONDS * 1000

\* getHierarchy waits for the introspection script
AwaitingIntrospection ==
    axCall.pc = "introspect"

\* no call has waited on the script for more than 20 s; a script still
\* running then was killed, and the call returned a hierarchy, not an error
WaitIsBounded ==
    MacIntrospected =>
        /\ axCall.waited <= APPLESCRIPT_TIMEOUT_SECONDS * 1000
        /\ OutlastsBound(axCall) =>
              (axCall.killed /\ ~axCall.error /\ axCall.hierarchy # <<>>)

\* C17: an introspection call that has not completed within 20 s is forcibly
\* terminated and the getHierarchy call that issued it eventually returns a
\* hierarchy and no error; getHierarchy never waits longer than the bound
C17_TimeoutBoundsTheWait ==
    /\ []WaitIsBounded
    /\ (AwaitingIntrospection /\ OutlastsBound(axCall))
          ~> (MacIntrospected /\ axCall.killed /\ ~axCall.error /\ axCall.hierarchy # <<>>)

C17_Witness ==
    /\ MacIntrospected
    /\ OutlastsBound(axCall)
    /\ axCall.killed
    /\ axCall.waited = APPLESCRIPT_TIMEOUT_SECONDS * 1000
    /\ clock = axCall.started + 20000
    /\ axCall.hierarchy # <<>>

PermissionChecked ==
    axCall.pc = "done" /\ axCall.op = "checkPermissions"

\* C18 as stated: every checkPermissions call probes the host; a denied
\* probe returns granted=false with a non-empty instructions list; a check
\* made after consent is granted returns granted=true, however many earlier
\* checks were denied
C18_EveryCallProbes ==
    PermissionChecked =>
        /\ axCall.probed
        /\ axCall.probe = "exit1" =>
              (~axCall.status.granted /\ axCall.status.instructions # <<>>)
        /\ axCall.consent => axCall.status.granted

\* the probe outcomes on which a host's service reports granted
GrantingProbes(os) ==
    CASE os = "mac" -> {"exit0"}
      [] os = "linux" -> {"exit0", "throws"}
      [] OTHER -> {"none"}

\* C18 (amended): the Mac and Linux services probe the host at every call
\* and the Windows service never does; the result is fixed by the host
\* variant and the outcome of that probe alone; a result with granted=false
\* carries a non-empty instructions list; a probe that runs after consent is
\* granted returns granted=true, however many earlier checks were denied
C18_ResultFollowsProbe ==
    PermissionChecked =>
        /\ axCall.probed <=> axs.os # "windows"
        /\ axCall.status.granted <=> axCall.probe \in GrantingProbes(axs.os)
        /\ ~axCall.status.granted => Len(axCall.status.instructions) > 0
        /\ axCall.probe = "exit1" => ~axCall.status.granted
        /\ (axCall.consent /\ axCall.probe # "throws") => axCall.status.granted

C18_Witness ==
    /\ PermissionChecked
    /\ axs.os = "mac"
    /\ axCall.deniedBefore >= 2
    /\ axCall.consent
    /\ axCall.probe = "exit0"
    /\ axCall.status.granted

---------------------------------------------------------------------------
(* Further properties of compressScreenshot, checked under SpecCompress.   *)

\* the caller's initial quality is a number in 1..100
QualityInRange ==
    LET q == Opt(job.opts, "quality") IN IsNum(q) /\ q[1] \in 1..100

\* C29: across the successive encodes of the quality loop of one call the
\* quality never increases, for every initial quality in 1..100
C29_QualityNeverIncreases ==
    (job # NoJob /\ QualityInRange) =>
        \A k \in 1..(Len(LoopEncodes) - 1) :
            /\ IsNum(LoopEncodes[k + 1].quality)
            /\ LoopEncodes[k + 1].quality[1] <= LoopEncodes[k].quality[1]

\* the same for an initial quality of 20 or more
C29_FromTwentyUp ==
    (job # NoJob /\ QualityInRange /\ Opt(job.opts, "quality")[1] >= 20) =>
        \A k \in 1..(Len(LoopEncodes) - 1) :
            /\ IsNum(LoopEncodes[k + 1].quality)
            /\ LoopEncodes[k + 1].quality[1] <= LoopEncodes[k].quality[1]

\* maxWidth, maxHeight and maxSizeBytes of the call are positive numbers
PositiveLimits ==
    \A key \in {"maxWidth", "maxHeight", "maxSizeBytes"} :
        IsNum(Opt(job.opts, key)) /\ Opt(job.opts, key)[1] > 0

\* C30: every resize compressScreenshot requests, the initial fit and the
\* final shrink, has a target width >= 1 and height >= 1, for every source
\* size and every positive maxWidth, maxHeight and maxSizeBytes
C30_ResizeTargetsPositive ==
    (job # NoJob /\ PositiveLimits) =>
        \A i \in DOMAIN job.resizes :
            /\ IsNum(job.resizes[i].w) /\ job.resizes[i].w[1] >= 1
            /\ IsNum(job.resizes[i].h) /\ job.resizes[i].h[1] >= 1

---------------------------------------------------------------------------
(* Properties of GradleLauncher.stop, checked under SpecGradle.             *)

SentAt(signal, t) ==
    \E i \in DOMAIN gradle.signals :
        gradle.signals[i].signal = signal /\ gradle.signals[i].at = t

\* C21: stop(process) on a running process sends SIGTERM at once, and when
\* the process has still not exited at the end of the 5 s grace period
\* SIGKILL is sent; so a process that ignores SIGTERM is killed
C21_TermThenKill ==
    gradle # NoChild =>
        /\ (gradle.stops # <<>> /\ gradle.stops[1].running)
              => SentAt("SIGTERM", gradle.stops[1].at)
        /\ \A i \in DOMAIN gradle.fired :
              gradle.fired[i].running => SentAt("SIGKILL", gradle.fired[i].at)

\* the first half alone: SIGTERM at once, and one timer of 5 s
C21_TermAtOnce ==
    gradle # NoChild =>
        /\ (gradle.stops # <<>> /\ gradle.stops[1].running)
              => SentAt("SIGTERM", gradle.stops[1].at)
        /\ \A i \in DOMAIN gradle.fired :
              gradle.fired[i].at >= gradle.stops[1].at + StopGraceMs

---------------------------------------------------------------------------
(* Further properties of DeviceManager, checked under Spec.                 *)

\* the serials adb reports in state "device", the simulators simctl
\* reports as booted
UsableSerials == IF adbUp THEN {i \in 1..MaxAndroid : adbState[i] = "device"} ELSE {}
UsableUdids == IF simUp THEN {i \in 1..MaxIos : simState[i] = "booted"} ELSE {}

Least(S) == CHOOSE i \in S : \A j \in S : i <= j

\* C24: a command without platform hint and without active device, when a
\* usable device is enumerated, activates the first usable device of the
\* enumeration, which lists all Android devices before all iOS devices, and
\* is routed to the client of its platform, scoped to its id
C24_FirstUsableAndroidFirst ==
    [][(/\ IsCommandCall
        /\ last'.platform = Undefined
        /\ activeDevice = NoDevice
        /\ UsableSerials \cup UsableUdids # {})
        => /\ last'.error = "none"
           /\ \A i, j \in 1..Len(getAllDevices) :
                 (getAllDevices[i].platform = "android" /\ getAllDevices[j].platform = "ios")
                    => i < j
           /\ IF UsableSerials # {}
              THEN /\ activeDevice'.id = <<"serial", Least(UsableSerials)>>
                   /\ activeDevice'.platform = "android"
                   /\ last'.client = "android"
                   /\ androidClient'.deviceId = activeDevice'.id
              ELSE /\ activeDevice'.id = <<"udid", Least(UsableUdids)>>
                   /\ activeDevice'.platform = "ios"
                   /\ last'.client = "ios"
                   /\ iosClient'.deviceId = activeDevice'.id
           /\ last'.calls = BackendCalls(last'.op, last'.client)]_vars

\* a command without hint has activated the second Android serial, the
\* first being offline, although a booted simulator is enumerated too
C24_Witness ==
    /\ last.op \in UnifiedCommands /\ last.platform = Undefined
    /\ last.enums = 2 /\ last.error = "none"
    /\ adbUp /\ adbState[1] = "offline" /\ adbState[2] = "device"
    /\ UsableUdids # {}
    /\ activeDevice.id = <<"serial", 2>>
    /\ androidClient.deviceId = <<"serial", 2>>
    /\ last.client = "android"

\* C28: once a device is active the active device is never cleared and
\* changes only by a successful setDevice; every command without platform
\* hint is routed to the client of the active device's platform without
\* enumerating devices, whatever the enumeration would return
C28_ActiveDeviceIsSticky ==
    [][activeDevice # NoDevice
        => /\ activeDevice' # NoDevice
           /\ activeDevice' # activeDevice
                 => (IsSetDeviceCall /\ last'.error = "none" /\ activeDevice' = last'.device)
           /\ (IsCommandCall /\ last'.platform = Undefined)
                 => /\ last'.error = "none"
                    /\ last'.client = activeDevice.platform
                    /\ last'.enums = 0
                    /\ last'.calls = BackendCalls(last'.op, activeDevice.platform)
                    /\ activeDevice' = activeDevice]_vars

\* a command without hint was routed to the Android client of the active
\* device although the enumeration is empty
C28_Witness ==
    /\ last.op \in UnifiedCommands /\ last.platform = Undefined
    /\ last.error = "none" /\ last.enums = 0
    /\ activeDevice.platform = "android"
    /\ last.client = "android"
    /\ Len(getAllDevices) = 0

\* C25: a long_press by text on Android whose text matches in the freshly
\* parsed hierarchy dispatches one long press at the centre of the first
\* clickable match in traversal order, and at the centre of the first
\* match only when no match is clickable
C25_LongPressPrefersClickable ==
    (/\ reply # NoReply
     /\ reply.tool = "long_press"
     /\ reply.text # ""
     /\ FetchedHierarchy
     /\ MatchesOfReply # <<>>)
    => LET found == MatchesOfReply
           idx == ClickableIdx(found)
           target == IF idx = {} THEN found[1]
                     ELSE found[CHOOSE i \in idx : \A j \in idx : i <= j]
           calls == reply.calls
           presses == SelectSeq(calls, LAMBDA c : c.method = "longPress")
       IN  /\ reply.kind = "Long pressed at"
           /\ Len(presses) = 1
           /\ presses[1].client = "android"
           /\ presses[1].x = <<target.centerX>>
           /\ presses[1].y = <<target.centerY>>

\* C26: a tap by text, resourceId or index without coordinates and without
\* platform hint, handled while no device is active and a usable Android
\* device is connected, activates the first usable Android device, fetches
\* its hierarchy and either dispatches the tap at the centre of the element
\* or reports that the element was not found
C26_LookupTapActivatesDevice ==
    [][(/\ reply = NoReply
        /\ reply'.tool = "tap"
        /\ reply'.platform = Undefined
        /\ reply'.args.x = <<>> /\ reply'.args.y = <<>>
        /\ reply'.text # "" \/ reply'.resourceId # "" \/ reply'.args.index # <<>>
        /\ activeDevice = NoDevice
        /\ UsableSerials # {})
       => /\ activeDevice' # NoDevice
          /\ activeDevice'.id = <<"serial", Least(UsableSerials)>>
          /\ \E i \in DOMAIN reply'.calls : reply'.calls[i].method = "getUiHierarchy"
          /\ reply'.kind \in {"Tapped at", "Element not found",
                              "Element with index not found"}]_vars

\* C27: a tap resolved by index is dispatched to the device whose hierarchy
\* the indexed element was parsed from: when the cache was fetched from one
\* selected Android device and the tap goes to another selected Android
\* device, the cached indices are not used
C27_IndexTapUsesOwnHierarchy ==
    (/\ reply # NoReply
     /\ reply.tool = "tap"
     /\ reply.args.index # <<>>
     /\ reply.text = "" /\ reply.resourceId = ""
     /\ reply.kind = "Tapped at"
     /\ reply.calls[Len(reply.calls)].client = "android"
     /\ reply.calls[Len(reply.calls)].deviceId # NoId
     /\ cachedFrom # NoId)
    => reply.calls[Len(reply.calls)].deviceId = cachedFrom

\* the replies that report NoActiveDevice, DeviceNotFound and ElementNotFound
ErrorReplies ==
    {"No active device", "Device not found", "Element not found",
     "Element with index not found"}

\* C23: a set_device, tap or long_press that ends in NoActiveDevice,
\* DeviceNotFound or ElementNotFound answers the caller with that text,
\* leaves the active device as it was and makes no tap and no long press on
\* any backend client; the errors thrown by the DeviceManager are flagged
\* isError, and after every reply the server takes the next call
C23_ErrorsAreTextReplies ==
    /\ [][(reply = NoReply /\ reply' # NoReply /\ reply'.kind \in ErrorReplies)
          => /\ activeDevice' = activeDevice
             /\ \A i \in DOMAIN reply'.calls :
                   reply'.calls[i].method \notin {"tap", "longPress"}
             /\ reply'.isError
                   <=> reply'.kind \in {"No active device", "Device not found"}]_vars
    /\ [](reply # NoReply => ENABLED ToolReturn)
    /\ [](reply = NoReply
             => ENABLED (\E p \in PlatformHints, a \in TapRequests :
                            ToolTap(p, a.x, a.y, a.index, a.text, a.resourceId, <<>>)))

\* set_device with an unknown id was answered "Device not found" and the
\* device activated earlier is still the active device
C23_Witness ==
    /\ reply.tool = "set_device"
    /\ reply.kind = "Device not found"
    /\ reply.isError
    /\ activeDevice # NoDevice

\* C22: at most one handler is in flight at any time, and the replies are
\* produced in the order in which the calls were received
C22_OneCommandInFlight ==
    /\ Cardinality(InFlight) <= 1
    /\ \A i \in DOMAIN server.replied : server.replied[i] = i

=============================================================================
